---------------------------- MODULE Spec2Model ----------------------------
(***************************************************************************)
(* A model of txspinneret: URL route matching (txspinneret/route.py), the  *)
(* typed value parsers behind dynamic route components                     *)
(* (txspinneret/query.py), Accept parsing (txspinneret/util.py) and        *)
(* content negotiation (txspinneret/resource.py).                          *)
(*                                                                         *)
(* Representation.  A Python string (bytes or unicode) is a sequence of    *)
(* atoms; an atom is a one-element TLA+ string standing for one character  *)
(* (in path strings) or for one run of characters without separators (in   *)
(* header values, where "," ";" "=" are atoms of their own).  A Python     *)
(* value is a record with a "type" field; None is [type |-> "NoneType"].   *)
(* A call that may raise returns a completion record: "raised" names the   *)
(* exception ("" when the call returned) and "value" is what it returned.  *)
(***************************************************************************)
EXTENDS Integers, Sequences, FiniteSets, TLC

VARIABLES
    routes,       \* Router._routes: sequence of (name, meth, matcher) entries
    matcher,      \* a matcher built by route(...) or subroute(...)
    request,      \* the request: its raw Content-Type and Accept headers
    segments,     \* the caller's list of path segments
    result,       \* completion of the last call
    calls,        \* route handlers invoked by the last dispatch, in order
    negotiator,   \* the ContentTypeNegotiator, once constructed
    config,       \* the arguments last given to ContentTypeNegotiator(...),
                  \* or to the parser or combinator factory last called
    rawValue,     \* the raw value handed to a query parser or combinator
    queryArgs,    \* the query arguments (request.args) handed to parse
    manyDefault,  \* the list that is the default of one many(parser)
    inflight,     \* the dispatches in flight over the shared tables
    heap,         \* the Router objects and the route lists they refer to
    renders       \* the requests being rendered by a SpinneretResource

vars == <<routes, matcher, request, segments, result, calls, negotiator,
          config, rawValue, queryArgs, manyDefault,
          inflight,
          heap,
          renders>>

-----------------------------------------------------------------------------
(* Python values and completions *)

None == [type |-> "NoneType"]

Bytes(s) == [type |-> "bytes", chars |-> s]

Unicode(s) == [type |-> "unicode", chars |-> s]

IntObj(n) == [type |-> "int", val |-> n]

Return(v) == [raised |-> "", value |-> v]

Raise(e) == [raised |-> e, value |-> None]

Returned(c) == c.raised = ""

\* All sequences over S of length at most n.
SeqsUpTo(S, n) == UNION {[1..k -> S] : k \in 0..n}

-----------------------------------------------------------------------------
(* str.split(sep): the pieces of s between occurrences of the atom sep;    *)
(* always at least one piece, and the empty string gives one empty piece.  *)

RECURSIVE SplitFrom(_, _, _, _)
SplitFrom(s, sep, i, piece) ==
    IF i > Len(s) THEN <<piece>>
    ELSE IF s[i] = sep THEN <<piece>> \o SplitFrom(s, sep, i + 1, <<>>)
    ELSE SplitFrom(s, sep, i + 1, Append(piece, s[i]))

Split(s, sep) == SplitFrom(s, sep, 1, <<>>)

-----------------------------------------------------------------------------
(* Codecs: bytes.decode(encoding).  The byte "\xff" is not valid UTF-8 and *)
(* is U+00FF in Latin-1; every other atom of the model is ASCII.  An       *)
(* unknown codec name raises LookupError.                                  *)

BadByte == "\\xff"

KnownEncodings == {"utf-8", "latin-1"}

DecodeAtom(c) == IF c = BadByte THEN "U+00FF" ELSE c

Decode(chars, encoding) ==
    IF encoding \notin KnownEncodings THEN Raise("LookupError")
    ELSE IF encoding = "utf-8" /\ \E i \in 1..Len(chars) : chars[i] = BadByte
    THEN Raise("UnicodeDecodeError")
    ELSE Return(Unicode([i \in 1..Len(chars) |-> DecodeAtom(chars[i])]))

-----------------------------------------------------------------------------
(* txspinneret.query: typed value parsers *)

DefaultEncoding == "utf-8"

NoEncoding == ""

\* query.Text(value, encoding)
QueryText(value, encoding) ==
    LET enc == IF encoding = NoEncoding THEN DefaultEncoding ELSE encoding
    IN  IF value.type = "bytes" THEN Decode(value.chars, enc)
        ELSE IF value.type = "unicode" THEN Return(value)
        ELSE Return(None)

Digits == <<"0", "1", "2", "3", "4", "5", "6", "7", "8", "9",
            "a", "b", "c", "d", "e", "f">>

DigitValue(c) ==
    IF \E d \in 1..Len(Digits) : Digits[d] = c
    THEN (CHOOSE d \in 1..Len(Digits) : Digits[d] = c) - 1
    ELSE -1

RECURSIVE IntValue(_, _, _)
IntValue(chars, base, acc) ==
    IF chars = <<>> THEN acc
    ELSE IntValue(Tail(chars), base, acc * base + DigitValue(Head(chars)))

\* str.strip(): s without its leading and trailing whitespace.
Strip(s) ==
    LET kept == {i \in 1..Len(s) : s[i] # " "}
    IN  IF kept = {} THEN <<>>
        ELSE SubSeq(s, CHOOSE i \in kept : \A j \in kept : i <= j,
                       CHOOSE i \in kept : \A j \in kept : i >= j)

\* Whether chars, whitespace around it aside, is a non-empty run of digits
\* of the base.
IsDigits(chars, base) ==
    /\ Strip(chars) # <<>>
    /\ \A i \in 1..Len(Strip(chars)) :
          /\ DigitValue(Strip(chars)[i]) >= 0
          /\ DigitValue(Strip(chars)[i]) < base

\* int(text, base): ValueError unless text, whitespace around it aside, is
\* a non-empty run of digits of the base; TypeError when text is None.
PyInt(text, base) ==
    IF text.type # "unicode" THEN Raise("TypeError")
    ELSE IF ~IsDigits(text.chars, base) THEN Raise("ValueError")
    ELSE Return(IntObj(IntValue(Strip(text.chars), base, 0)))

\* The except clause of query.Integer: UnicodeDecodeError is a ValueError.
CaughtByInteger == {"TypeError", "ValueError", "UnicodeDecodeError"}

\* query.Integer(value, base, encoding)
QueryInteger(value, base, encoding) ==
    LET text == QueryText(value, encoding)
        n    == PyInt(text.value, base)
    IN  IF ~Returned(text)
        THEN IF text.raised \in CaughtByInteger THEN Return(None) ELSE text
        ELSE IF ~Returned(n)
        THEN IF n.raised \in CaughtByInteger THEN Return(None) ELSE n
        ELSE n

-----------------------------------------------------------------------------
(* txspinneret.util: header splitting *)

\* A raw header as Headers.getRawHeaders gives it: absent, or a list of values.
NoHeader == [present |-> FALSE, values |-> <<>>]

Header(values) == [present |-> TRUE, values |-> values]

\* str.lower() on the atoms that have an upper-case letter.
LowerAtom(a) ==
    CASE a = "A/X" -> "a/x"
      [] a = "B/Y" -> "b/y"
      [] a = "Q" -> "q"
      [] a = "YES" -> "yes"
      [] a = "NO" -> "no"
      [] OTHER -> a

Lower(s) == [i \in 1..Len(s) |-> LowerAtom(s[i])]

\* Index of the first atom a in s, 0 when there is none (str.find + 1).
Find(s, a) ==
    IF \E i \in 1..Len(s) : s[i] = a
    THEN CHOOSE i \in 1..Len(s) : s[i] = a /\ \A j \in 1..(i - 1) : s[j] # a
    ELSE 0

\* The parameter dict cgi.parse_header builds from the ";"-separated parts
\* after the first: "name=value" parts only, names lower-cased, a later part
\* overwriting an earlier one of the same name.
RECURSIVE ParamDict(_, _)
ParamDict(parts, pdict) ==
    IF parts = <<>> THEN pdict
    ELSE LET p == Head(parts)
             i == Find(p, "=")
             name == Lower(SubSeq(p, 1, i - 1))
             val == SubSeq(p, i + 1, Len(p))
         IN  IF i = 0 THEN ParamDict(Tail(parts), pdict)
             ELSE ParamDict(Tail(parts),
                     [n \in DOMAIN pdict \cup {name} |->
                        IF n = name THEN val ELSE pdict[n]])

EmptyDict == [n \in {} |-> <<>>]

\* cgi.parse_header(value): (key, pdict)
ParseHeader(value) ==
    LET parts == Split(value, ";")
    IN  [key |-> Head(parts), args |-> ParamDict(Tail(parts), EmptyDict)]

\* chain.from_iterable(s.split(',') for s in headers if s)
RECURSIVE CommaPieces(_)
CommaPieces(values) ==
    IF values = <<>> THEN <<>>
    ELSE (IF Head(values) = <<>> THEN <<>> ELSE Split(Head(values), ","))
         \o CommaPieces(Tail(values))

\* util._splitHeaders(headers); iterating None raises TypeError.
SplitHeaders(headers) ==
    IF ~headers.present THEN Raise("TypeError")
    ELSE LET pieces == CommaPieces(headers.values)
         IN  Return([i \in 1..Len(pieces) |-> ParseHeader(pieces[i])])

\* dict.get(key, default)
DictGet(d, key, default) == IF key \in DOMAIN d THEN d[key] ELSE default

\* The codec a charset string names: codec names are single atoms.
CodecName(cs) == IF Len(cs) = 1 THEN cs[1] ELSE "unknown"

\* A contentEncoding that prefers the encoding it is given to the charset
\* of the header.
ContentEncodingGivenFirst(req, encoding) ==
    LET headers == SplitHeaders(Header(req.contentType.values)).value
    IN  IF encoding # NoEncoding THEN encoding
        ELSE IF headers # <<>>
        THEN CodecName(DictGet(headers[1].args, <<"charset">>,
                               <<DefaultEncoding>>))
        ELSE DefaultEncoding

\* util.contentEncoding(requestHeaders, encoding): getRawHeaders defaults to
\* the empty list here, so an absent Content-Type is an empty one.
ContentEncoding(req, encoding) ==
    LET enc == IF encoding = NoEncoding THEN DefaultEncoding ELSE encoding
        headers == SplitHeaders(Header(req.contentType.values)).value
    IN  IF headers # <<>>
        THEN CodecName(DictGet(headers[1].args, <<"charset">>, <<enc>>))
        ELSE enc

\* float(text) for the decimal strings of the model, as a number of tenths;
\* anything else raises ValueError.  The int 1 (the default of
\* args.get('q', 1)) is 1.0.
DefaultQ == <<"int 1">>

PyFloat(text) ==
    CASE text = DefaultQ -> Return(10)
      [] text = <<"1.0">> -> Return(10)
      [] text = <<"0.8">> -> Return(8)
      [] text = <<"0.5">> -> Return(5)
      [] text = <<"0.2">> -> Return(2)
      [] OTHER -> Raise("ValueError")

\* The sort key of _parseAccept: float(args.get('q', 1))
SortKey(entry) == PyFloat(DictGet(entry.args, <<"q">>, DefaultQ))

\* Insertion of entry e into a list sorted by descending key, behind every
\* element whose key is not smaller: what a stable sort does to an element
\* that comes after those of the list in the input.
RECURSIVE InsertByKey(_, _)
InsertByKey(e, sorted) ==
    IF sorted = <<>> THEN <<e>>
    ELSE IF SortKey(Head(sorted)).value >= SortKey(e).value
    THEN <<Head(sorted)>> \o InsertByKey(e, Tail(sorted))
    ELSE <<e>> \o sorted

RECURSIVE SortFrom(_, _, _)
SortFrom(entries, i, sorted) ==
    IF i > Len(entries) THEN sorted
    ELSE SortFrom(entries, i + 1, InsertByKey(entries[i], sorted))

\* The list left in input order.
Unsorted(entries) == entries

\* sorted(entries, key=sort, reverse=True): descending key, stable.
SortedByQ(entries) == SortFrom(entries, 1, <<>>)

\* OrderedDict(pairs): the pairs are set in order, so a repeated key keeps
\* the place of its first pair and the value of its last.
RECURSIVE DictFromEntries(_, _, _)
DictFromEntries(entries, i, d) ==
    IF i > Len(entries) THEN d
    ELSE DictFromEntries(entries, i + 1,
            IF \E k \in 1..Len(d) : d[k][1] = entries[i].key
            THEN [k \in 1..Len(d) |->
                    IF d[k][1] = entries[i].key
                    THEN <<entries[i].key, entries[i].args>> ELSE d[k]]
            ELSE Append(d, <<entries[i].key, entries[i].args>>))

\* util._parseAccept(headers): an OrderedDict, as the sequence of its
\* (media type, params) items.
ParseAccept(headers) ==
    LET split == SplitHeaders(headers)
    IN  IF ~Returned(split) THEN split
        ELSE IF \E i \in 1..Len(split.value) :
                    ~Returned(SortKey(split.value[i]))
        THEN Raise("ValueError")
        ELSE Return([type |-> "OrderedDict",
                     items |-> DictFromEntries(SortedByQ(split.value), 1,
                                               <<>>)])

-----------------------------------------------------------------------------
(* txspinneret.route: route components and the matching algorithm *)

DefaultBase == 10

\* route.Text(name, encoding): the matcher it returns.
Text(name, encoding) ==
    [type |-> "function", parser |-> "Text", name |-> name,
     base |-> DefaultBase, encoding |-> encoding]

\* route.Integer(name, base, encoding): the matcher it returns.
Integer(name, base, encoding) ==
    [type |-> "function", parser |-> "Integer", name |-> name,
     base |-> base, encoding |-> encoding]

\* callable(us)
Callable(us) == us.type = "function"

\* us(request, them) for a matcher made by Text or Integer: (name, value).
Match(us, req, them) ==
    LET enc == ContentEncoding(req, us.encoding)
        v   == IF us.parser = "Text" THEN QueryText(them, enc)
               ELSE QueryInteger(them, us.base, enc)
    IN  IF Returned(v) THEN Return([name |-> us.name, match |-> v.value])
        ELSE v

\* An OrderedDict as the sequence of its (key, value) items.
OrderedDict(items) == [type |-> "OrderedDict", items |-> items]

\* An item store that puts a new key in front.
SetItemFirst(d, name, val) ==
    IF \E i \in 1..Len(d.items) : d.items[i][1] = name
    THEN OrderedDict([i \in 1..Len(d.items) |->
            IF d.items[i][1] = name THEN <<name, val>> ELSE d.items[i]])
    ELSE OrderedDict(<<<<name, val>>>> \o d.items)

\* An item store that moves a key stored again to the end.
SetItemMoved(d, name, val) ==
    OrderedDict(
        Append(SelectSeq(d.items, LAMBDA item : item[1] # name),
               <<name, val>>))

\* results[name] = match: an existing key keeps its place, a new one is
\* added at the end.
SetItem(d, name, val) ==
    IF \E i \in 1..Len(d.items) : d.items[i][1] = name
    THEN OrderedDict([i \in 1..Len(d.items) |->
            IF d.items[i][1] = name THEN <<name, val>> ELSE d.items[i]])
    ELSE OrderedDict(Append(d.items, <<name, val>>))

\* NO_MATCH = None, segments.  The field "segments" is the caller's list as
\* the call leaves it: remaining is a copy, so popping it never reaches it.
NoMatchConsumed(segs, remaining) ==
    [matches |-> None, remaining |-> remaining, segments |-> remaining]

NO_MATCH(segs, remaining) ==
    [matches |-> None, remaining |-> segs, segments |-> segs]

\* return results, remaining
Matched(results, segs, remaining) ==
    [matches |-> results, remaining |-> remaining, segments |-> segs]

\* The single-string convenience of _matchRoute: one bytes component is
\* stripped of one leading "/" and split on "/".  Indexing the empty string
\* raises IndexError.
NormalizeComponents(components) ==
    IF Len(components) = 1 /\ components[1].type = "bytes"
    THEN LET s == components[1].chars
         IN  IF s = <<>> THEN Raise("IndexError")
             ELSE LET t == IF s[1] = "/" THEN Tail(s) ELSE s
                      pieces == Split(t, "/")
                  IN  Return([i \in 1..Len(pieces) |-> Bytes(pieces[i])])
    ELSE Return(components)

\* remaining.pop(0)
PopLast(remaining) == SubSeq(remaining, 1, Len(remaining) - 1)

Pop(remaining) == Tail(remaining)

\* "us is None": the components ran out before the segments did.
ExhaustedNeverMatches(partialMatching, results, segs, remaining) ==
    NO_MATCH(segs, remaining)

ComponentsExhausted(partialMatching, results, segs, remaining) ==
    IF partialMatching THEN Matched(results, segs, remaining)
    ELSE NO_MATCH(segs, remaining)

\* The loop of _matchRoute over izip_longest(components, segments), from
\* position i on.
RECURSIVE MatchLoop(_, _, _, _, _, _, _)
MatchLoop(components, req, segs, partialMatching, i, results, remaining) ==
    IF i > Len(components) /\ i > Len(segs)
    THEN Return(Matched(results, segs, remaining))
    ELSE IF i > Len(components)
    THEN Return(ComponentsExhausted(partialMatching, results, segs, remaining))
    ELSE IF i > Len(segs) THEN Return(NO_MATCH(segs, remaining))
    ELSE LET us == components[i]
             them == segs[i]
         IN  IF Callable(us)
             THEN LET m == Match(us, req, them)
                  IN  IF ~Returned(m) THEN m
                      ELSE IF m.value.match = None
                      THEN Return(NO_MATCH(segs, remaining))
                      ELSE MatchLoop(components, req, segs, partialMatching,
                               i + 1,
                               SetItem(results, m.value.name, m.value.match),
                               Pop(remaining))
             ELSE IF us # them THEN Return(NO_MATCH(segs, remaining))
             ELSE MatchLoop(components, req, segs, partialMatching, i + 1,
                            results, Pop(remaining))

\* route._matchRoute(components, request, segments, partialMatching)
MatchRoute(components, req, segs, partialMatching) ==
    LET norm == NormalizeComponents(components)
    IN  IF ~Returned(norm) THEN norm
        ELSE IF Len(segs) = 0 /\ Len(norm.value) = 0
        THEN Return(Matched(OrderedDict(<<>>), segs, segs))
        ELSE MatchLoop(norm.value, req, segs, partialMatching, 1,
                       OrderedDict(<<>>), segs)

\* A matcher: partial(_matchRoute, components, partialMatching=...)
Matcher(components, partialMatching) ==
    [built |-> TRUE, components |-> components,
     partialMatching |-> partialMatching]

NoMatcher == [built |-> FALSE, components |-> <<>>, partialMatching |-> FALSE]

\* matcher(request, segments)
ApplyMatcher(m, req, segs) ==
    MatchRoute(m.components, req, segs, m.partialMatching)

-----------------------------------------------------------------------------
(* txspinneret.route: Router and _RouterResource *)

\* Route handlers are user code: a handler returns a resource that records
\* what it was called with, and the handler "nothing" returns None.
HandlerResult(meth, obj, req, params) ==
    IF meth = "nothing" THEN None
    ELSE [type |-> "Resource", meth |-> meth, obj |-> obj, params |-> params]

\* One entry of Router._routes: (f.func_name, f, matcher)
RouteEntry(f, m) == [name |-> f, meth |-> f, route |-> m]

\* The record of one handler invocation meth(self._obj, request, matches).
HandlerCall(meth, obj, req, params) ==
    [meth |-> meth, obj |-> obj, request |-> req, params |-> params]

\* What _RouterResource._matchRoute returns: (result, segments)
Located(res, segs) == [result |-> res, segments |-> segs]

\* return None, segments
NotLocatedEmpty(segs) == Located(None, <<>>)

NotLocated(segs) == Located(None, segs)

\* The loop of _RouterResource._matchRoute from entry i on.  Every matcher
\* is given the same list object, so segs is that list as the matchers
\* tried so far have left it.
RECURSIVE LocateFrom(_, _, _, _, _)

\* The matchers that have run when the loop is at entry i: those of the
\* entries 1..i, in order.
TriedUpTo(i) == [j \in 1..i |-> j]

\* The loop body for entry i that goes on to the later entries when the
\* handler of a matching entry returned None.
LocateEntryPastNone(table, obj, req, segs, i, r) ==
    IF ~Returned(r)
    THEN [raised |-> r.raised, value |-> None, calls |-> <<>>,
          segments |-> segs, tried |-> TriedUpTo(i)]
    ELSE IF r.value.matches = None
    THEN LocateFrom(table, obj, req, r.value.segments, i + 1)
    ELSE IF HandlerResult(table[i].meth, obj, req, r.value.matches) # None
    THEN [raised |-> "",
          value  |-> Located(
              HandlerResult(table[i].meth, obj, req, r.value.matches),
              r.value.remaining),
          calls  |-> <<HandlerCall(table[i].meth, obj, req,
                                   r.value.matches)>>,
          segments |-> r.value.segments,
          tried  |-> TriedUpTo(i)]
    ELSE [LocateFrom(table, obj, req, r.value.segments, i + 1)
            EXCEPT !.calls = <<HandlerCall(table[i].meth, obj, req,
                                           r.value.matches)>> \o @]

\* The body of the loop for entry i, r being what its matcher gave:
\* call the handler and return when it matched, else go on.
LocateEntry(table, obj, req, segs, i, r) ==
    IF ~Returned(r)
    THEN [raised |-> r.raised, value |-> None, calls |-> <<>>,
          segments |-> segs, tried |-> TriedUpTo(i)]
    ELSE IF r.value.matches # None
    THEN [raised |-> "",
          value  |-> Located(
              HandlerResult(table[i].meth, obj, req, r.value.matches),
              r.value.remaining),
          calls  |-> <<HandlerCall(table[i].meth, obj, req,
                                   r.value.matches)>>,
          segments |-> r.value.segments,
          tried  |-> TriedUpTo(i)]
    ELSE LocateFrom(table, obj, req, r.value.segments, i + 1)

LocateFrom(table, obj, req, segs, i) ==
    IF i > Len(table)
    THEN [raised |-> "", value |-> NotLocated(segs), calls |-> <<>>,
          segments |-> segs, tried |-> TriedUpTo(Len(table))]
    ELSE LocateEntry(table, obj, req, segs, i,
                     ApplyMatcher(table[i].route, req, segs))

\* Dispatch that lets the last matching entry win.
LastMatchWins(table, obj, req, segs) ==
    LET rev == [i \in 1..Len(table) |-> table[Len(table) + 1 - i]]
    IN  LocateFrom(rev, obj, req, segs, 1)

\* _RouterResource._matchRoute(request, segments)
RouterMatchRoute(table, obj, req, segs) == LocateFrom(table, obj, req, segs, 1)

\* http.NOT_FOUND
NOT_FOUND == 404

\* resource.NotFound(): the leaf resource that renders 404 Not Found.
NotFound == [type |-> "NotFound", code |-> NOT_FOUND]

\* The rest of _RouterResource.render once _matchRoute has given r: the
\* resource that is rendered, NotFound() standing in for a None result.
RenderLocated(r) ==
    IF ~Returned(r) THEN r
    ELSE [raised |-> "",
          value  |-> [rendered |-> IF r.value.result = None THEN NotFound
                                   ELSE r.value.result],
          calls  |-> r.calls,
          segments |-> r.segments,
          tried  |-> r.tried]

\* A render that dispatches with the segments of the caller.
RenderWithSegments(table, obj, req, segs) ==
    RenderLocated(RouterMatchRoute(table, obj, req, segs))

\* _RouterResource.render(request): dispatch with a new empty list,
\* whatever segments the caller holds.
RouterRender(table, obj, req, segs) ==
    RenderLocated(RouterMatchRoute(table, obj, req, <<>>))

-----------------------------------------------------------------------------
(* txspinneret.route: Router as a descriptor.  Router objects and the     *)
(* lists they hold in _routes are objects with identity: heap.routers is  *)
(* the Router objects made so far and heap.lists the list objects, a      *)
(* Router naming its list by position.                                    *)

\* No object made yet.
NoHeap == [routers |-> <<>>, lists |-> <<>>]

\* A Router on which no _self attribute was set.
NoSelf == [type |-> "unset"]

\* A reference to the k-th Router object.
RouterRef(k) == [type |-> "Router", id |-> k]

\* Router(): self._routes = [], a new list
NewRouter(h) ==
    [routers |-> Append(h.routers,
                        [self |-> NoSelf, routes |-> Len(h.lists) + 1]),
     lists   |-> Append(h.lists, <<>>)]

\* router._routes, as a sequence of entries
RoutesOf(h, k) == h.lists[h.routers[k].routes]

\* A _forObject whose new Router refers to the list of the old one.
ForObjectSharing(h, k, obj) ==
    [routers |-> Append(h.routers,
                        [self |-> obj, routes |-> h.routers[k].routes]),
     lists   |-> h.lists]

\* Router._forObject(obj): a new Router of the same type, with a copy of
\* the list and obj as _self.
ForObject(h, k, obj) ==
    [routers |-> Append(h.routers,
                        [self |-> obj, routes |-> Len(h.lists) + 1]),
     lists   |-> Append(h.lists, RoutesOf(h, k))]

\* Router.__get__(obj, type): the Router itself through the class, a new
\* bound Router through an instance.
Get(h, k, obj) ==
    IF obj = None
    THEN [heap |-> h, value |-> RouterRef(k)]
    ELSE [heap |-> ForObject(h, k, obj),
          value |-> RouterRef(Len(h.routers) + 1)]

\* Router._addRoute(f, matcher): self._routes.append(...)
AddRoute(h, k, f, m) ==
    [h EXCEPT !.lists[h.routers[k].routes] = Append(@, RouteEntry(f, m))]

\* Router.resource() and a dispatch through it:
\* _RouterResource(self._self, self._routes).locateChild(request, segments)
ResourceLocateChild(h, k, req, segs) ==
    IF h.routers[k].self = NoSelf
    THEN [raised |-> "AttributeError", value |-> None, calls |-> <<>>,
          segments |-> segs, tried |-> <<>>]
    ELSE RouterMatchRoute(RoutesOf(h, k), h.routers[k].self, req, segs)

-----------------------------------------------------------------------------
(* txspinneret.resource: SpinneretResource.render.  One rendering is the  *)
(* request, the Deferred of the render result and what was done to the    *)
(* request, as events in order.                                           *)

\* twisted.web.server.NOT_DONE_YET
NOT_DONE_YET == [type |-> "NOT_DONE_YET"]

\* A resource whose render answers NOT_DONE_YET and writes later itself.
DelayedResource == [type |-> "Resource", body |-> NOT_DONE_YET]

\* The events of a rendering.
WriteEvent(body) == [event |-> "write", body |-> body]

FinishEvent == [event |-> "finish"]

LostEvent == [event |-> "connectionLost"]

CancelEvent == [event |-> "cancel"]

FailedEvent(reason) == [event |-> "processingFailed", reason |-> reason]

ReturnEvent(value) == [event |-> "return", value |-> value]

\* A request on which render has not been called.  yield is what the
\* wrapped render yielded, d the state of the Deferred (none, pending,
\* called, cancelled), canceller whether it was made with a canceller,
\* suppress its _suppressAlreadyCalled flag.
NoRender ==
    [request |-> "live", yield |-> "none", d |-> "none",
     canceller |-> FALSE, suppress |-> FALSE, events |-> <<>>]

NoRenders == <<>>

\* What the wrapped resource's render yields: a value, a Deferred that
\* has fired with a value, or a Deferred that has not fired.
Value(v) == [yield |-> "value", value |-> v, canceller |-> FALSE]

FiredDeferred(v) == [yield |-> "fired", value |-> v, canceller |-> FALSE]

PendingDeferred(canceller) ==
    [yield |-> "pending", value |-> None, canceller |-> canceller]

\* SpinneretResource._adaptToResource(result) on a render result: None
\* becomes NotFound(), a resource and a byte string are returned as is.
AdaptToResource(v) == IF v = None THEN NotFound ELSE v

\* render = getattr(result, 'render', lambda request: result);
\* renderResult = render(request)
RenderResult(v) ==
    IF v.type = "bytes" THEN v
    ELSE IF v.type = "NotFound" THEN Bytes(<<"Resource not found">>)
    ELSE v.body

\* A cancel that leaves the Deferred as it is.
CancelIgnored(r) == [r EXCEPT !.events = Append(@, CancelEvent)]

\* Deferred.cancel() on the render result: a Deferred that has not fired
\* fails with CancelledError (after its canceller, if it has one, which
\* does not fire it), so that the callbacks are passed over and the
\* errback request.processingFailed runs; one that has fired is left as
\* it is.
Cancel(r) ==
    IF r.d = "pending"
    THEN [r EXCEPT !.d = "cancelled", !.suppress = ~r.canceller,
                   !.events = @ \o <<CancelEvent,
                                     FailedEvent("CancelledError")>>]
    ELSE [r EXCEPT !.events = Append(@, CancelEvent)]

\* request.notifyFinish() firing: _requestFinished(result, cancel) calls
\* cancel().
RequestFinished(r) == Cancel(r)

\* request.finish(): the request is finished and notifyFinish fires.
RequestFinish(r) ==
    RequestFinished([r EXCEPT !.request = "finished",
                              !.events = Append(@, FinishEvent)])

\* A _whenDone that finishes the request before it writes.
WhenDoneFinishFirst(r, v) ==
    IF RenderResult(v) # NOT_DONE_YET
    THEN [RequestFinish(r) EXCEPT
             !.events = Append(@, WriteEvent(RenderResult(v)))]
    ELSE r

\* _whenDone(result): write the render result and finish the request,
\* unless the render result is NOT_DONE_YET.
WhenDone(r, v) ==
    IF RenderResult(v) # NOT_DONE_YET
    THEN RequestFinish([r EXCEPT
             !.events = Append(@, WriteEvent(RenderResult(v)))])
    ELSE r

\* The callbacks of the render result running on v: _adaptToResource,
\* then _whenDone.
RunCallbacks(r, v) == WhenDone([r EXCEPT !.d = "called"], AdaptToResource(v))

\* SpinneretResource._handleRenderResult(request, result): a result that
\* is no Deferred is wrapped in succeed(result); the callbacks of a
\* Deferred that has fired run as they are added; NOT_DONE_YET is
\* returned in every case.
HandleRenderResult(r, y) ==
    LET made == [r EXCEPT !.yield = y.yield, !.d = "pending",
                          !.canceller = y.canceller]
        ran  == IF y.yield = "pending" THEN made
                ELSE RunCallbacks(made, y.value)
    IN  [ran EXCEPT !.events = Append(@, ReturnEvent(NOT_DONE_YET))]

\* d.callback(v) by whoever made the Deferred.  On a Deferred that has
\* fired this raises AlreadyCalledError, except once after a cancel
\* without canceller, where it is ignored.
DeferredCallback(r, v) ==
    IF r.d = "pending" THEN [raised |-> "", value |-> RunCallbacks(r, v)]
    ELSE IF r.suppress
    THEN [raised |-> "", value |-> [r EXCEPT !.suppress = FALSE]]
    ELSE [raised |-> "AlreadyCalledError", value |-> r]

\* The connection of the request is lost: notifyFinish fires with the
\* failure.
RequestConnectionLost(r) ==
    RequestFinished([r EXCEPT !.request = "lost",
                              !.events = Append(@, LostEvent)])

-----------------------------------------------------------------------------
(* txspinneret.resource: ContentTypeNegotiator *)

\* A negotiable resource: its declared contentType and acceptTypes.
Handler(name, contentType, acceptTypes) ==
    [type |-> "Resource", name |-> name, contentType |-> Bytes(contentType),
     acceptTypes |-> acceptTypes]

\* NotAcceptable()
NotAcceptable == [type |-> "NotAcceptable"]

\* The empty _acceptHandlers dict.
NoAcceptHandlers == [t \in {} |-> None]

\* The inner loop of __init__ that lets a later declaration replace an
\* earlier one.
RECURSIVE RegisterOverwriting(_, _, _)
RegisterOverwriting(table, handler, j) ==
    IF j > Len(handler.acceptTypes) THEN Return(table)
    ELSE LET acceptType == handler.acceptTypes[j]
         IN  RegisterOverwriting(
                 [t \in DOMAIN table \cup {acceptType} |->
                     IF t = acceptType THEN handler ELSE table[t]],
                 handler, j + 1)

\* The inner loop of __init__: the accept types of one handler from the
\* j-th on; a type already in the table raises ValueError.
RECURSIVE Register(_, _, _)
Register(table, handler, j) ==
    IF j > Len(handler.acceptTypes) THEN Return(table)
    ELSE LET acceptType == handler.acceptTypes[j]
         IN  IF acceptType \in DOMAIN table THEN Raise("ValueError")
             ELSE Register(
                     [t \in DOMAIN table \cup {acceptType} |->
                         IF t = acceptType THEN handler ELSE table[t]],
                     handler, j + 1)

\* The outer loop of __init__ over self._handlers from the i-th on.
RECURSIVE RegisterAll(_, _, _)
RegisterAll(table, handlers, i) ==
    IF i > Len(handlers) THEN Return(table)
    ELSE LET r == Register(table, handlers[i], 1)
         IN  IF ~Returned(r) THEN r
             ELSE RegisterAll(r.value, handlers, i + 1)

\* ContentTypeNegotiator(handlers, fallback): the constructed object, or the
\* exception __init__ raised.
NewNegotiator(handlers, fallback) ==
    LET r == RegisterAll(NoAcceptHandlers, handlers, 1)
    IN  IF ~Returned(r) THEN r
        ELSE Return([built |-> TRUE, handlers |-> handlers,
                     fallback |-> fallback, acceptHandlers |-> r.value])

\* What _negotiateHandler returns: (resource, contentType)
Negotiated(resource, contentType) ==
    [resource |-> resource, contentType |-> contentType]

\* The loop of _negotiateHandler over accept.keys() from the i-th on:
\* the index of the first key whose lower-cased form is in the table, 0 when
\* there is none.
RECURSIVE FirstAccepted(_, _, _)
FirstAccepted(table, items, i) ==
    IF i > Len(items) THEN 0
    ELSE IF Lower(items[i][1]) \in DOMAIN table THEN i
    ELSE FirstAccepted(table, items, i + 1)

\* A fallback to the handler supplied last.
FallbackLast(neg) ==
    IF neg.handlers = <<>> THEN Raise("IndexError")
    ELSE Return(Negotiated(neg.handlers[Len(neg.handlers)],
                           neg.handlers[Len(neg.handlers)].contentType))

\* handler = self._handlers[0]; return handler, handler.contentType
Fallback(neg) ==
    IF neg.handlers = <<>> THEN Raise("IndexError")
    ELSE Return(Negotiated(neg.handlers[1], neg.handlers[1].contentType))

\* ContentTypeNegotiator._negotiateHandler(request)
NegotiateHandler(neg, req) ==
    LET accept == ParseAccept(req.accept)
    IN  IF ~Returned(accept) THEN accept
        ELSE LET i == FirstAccepted(neg.acceptHandlers, accept.value.items, 1)
             IN  IF i > 0
                 THEN LET handler ==
                            neg.acceptHandlers[Lower(accept.value.items[i][1])]
                      IN  Return(Negotiated(handler, handler.contentType))
                 ELSE IF neg.fallback THEN Fallback(neg)
                 ELSE Return(Negotiated(NotAcceptable, None))

\* http.NOT_ACCEPTABLE and http.OK
NOT_ACCEPTABLE == 406

OK == 200

\* What a render does to the request, as events in order.
SetHeader(name, value) == [event |-> "setHeader", name |-> name, value |-> value]

SetResponseCode(code) == [event |-> "setResponseCode", code |-> code]

RenderCall(resource) == [event |-> "render", resource |-> resource]

\* A completed render: the events on the request, then the body returned.
Rendered(events, body) == [raised |-> "", value |-> body, events |-> events]

\* resource.render(request): NotAcceptable answers 406 with an empty body;
\* a negotiable resource answers 200 with its body.
ResourceRender(resource) ==
    IF resource = NotAcceptable
    THEN Rendered(<<RenderCall(resource), SetResponseCode(NOT_ACCEPTABLE)>>,
                  Bytes(<<>>))
    ELSE Rendered(<<RenderCall(resource), SetResponseCode(OK)>>,
                  Bytes(<<"hello world">>))

\* A render that sets the Content-Type header after the resource rendered.
HeaderAfterRender(resource, contentType) ==
    LET r == ResourceRender(resource)
    IN  Rendered(r.events \o
                    (IF contentType # None
                     THEN <<SetHeader("Content-Type", contentType)>>
                     ELSE <<>>),
                 r.value)

\* The body of ContentTypeNegotiator.render after negotiation: set the
\* Content-Type header unless contentType is None, then render the resource.
RenderNegotiated(resource, contentType) ==
    LET r == ResourceRender(resource)
    IN  Rendered((IF contentType # None
                  THEN <<SetHeader("Content-Type", contentType)>>
                  ELSE <<>>) \o r.events,
                 r.value)

\* The render of what negotiation gave, or the exception of negotiation.
RenderCompletion(n) ==
    IF ~Returned(n) THEN [raised |-> n.raised, value |-> None, events |-> <<>>]
    ELSE RenderNegotiated(n.value.resource, n.value.contentType)

\* ContentTypeNegotiator.render(request)
NegotiatorRender(neg, req) == RenderCompletion(NegotiateHandler(neg, req))

-----------------------------------------------------------------------------
(* Dispatches in flight.  A dispatch is the loop of                       *)
(* _RouterResource._matchRoute over self._routes, or the loop of          *)
(* _negotiateHandler over accept.keys(), taken one iteration at a time,   *)
(* so that several dispatches over the same tables can be interleaved.    *)

NoDispatch ==
    [kind |-> "idle", given |-> <<>>, segs |-> <<>>, items |-> <<>>,
     pos |-> 0, done |-> FALSE, raised |-> "", value |-> None,
     calls |-> <<>>]

\* A dispatch of the Router over the segments given, before its first
\* iteration.
RouteDispatch(segs) ==
    [NoDispatch EXCEPT !.kind = "route", !.given = segs, !.segs = segs,
                       !.pos = 1]

\* A negotiation, before the Accept header is parsed.
Negotiation == [NoDispatch EXCEPT !.kind = "negotiate"]

\* The dispatch d, over: it raised, or returned value having invoked calls.
Finished(d, raised, value, handlerCalls) ==
    [d EXCEPT !.done = TRUE, !.raised = raised, !.value = value,
              !.calls = handlerCalls]

\* The body of the loop of _RouterResource._matchRoute for the entry at
\* d.pos, r being what its matcher gave.
RouteEntryStep(table, obj, req, d, r) ==
    IF ~Returned(r) THEN Finished(d, r.raised, None, <<>>)
    ELSE IF r.value.matches # None
    THEN Finished(d, "",
                  Located(HandlerResult(table[d.pos].meth, obj, req,
                                        r.value.matches),
                          r.value.remaining),
                  <<HandlerCall(table[d.pos].meth, obj, req,
                                r.value.matches)>>)
    ELSE [d EXCEPT !.pos = d.pos + 1, !.segs = r.value.segments]

\* One iteration of the loop of _RouterResource._matchRoute, or its end.
RouteStep(table, obj, req, d) ==
    IF d.pos > Len(table) THEN Finished(d, "", NotLocated(d.segs), <<>>)
    ELSE RouteEntryStep(table, obj, req, d,
                        ApplyMatcher(table[d.pos].route, req, d.segs))

\* A loop that takes the entry it has tried out of the table.
TableConsumed(table, i) ==
    [j \in 1..(Len(table) - 1) |-> IF j < i THEN table[j] ELSE table[j + 1]]

\* self._routes after the iteration for entry i: the loop only reads it.
TableAfterStep(table, i) == table

\* The start of _negotiateHandler: the Accept header parsed, r being what
\* _parseAccept gave.
NegotiationParsed(d, r) ==
    IF ~Returned(r) THEN Finished(d, r.raised, None, <<>>)
    ELSE [d EXCEPT !.items = r.value.items, !.pos = 1]

\* What _negotiateHandler returns once c is known.
NegotiationOver(d, c) == Finished(d, c.raised, c.value, <<>>)

\* One iteration of the loop of _negotiateHandler over accept.keys(), or
\* what follows the loop.
NegotiationStep(neg, req, d) ==
    IF d.pos = 0 THEN NegotiationParsed(d, ParseAccept(req.accept))
    ELSE IF d.pos > Len(d.items)
    THEN NegotiationOver(d, IF neg.fallback THEN Fallback(neg)
                            ELSE Return(Negotiated(NotAcceptable, None)))
    ELSE IF Lower(d.items[d.pos][1]) \in DOMAIN neg.acceptHandlers
    THEN NegotiationOver(d,
            Return(Negotiated(
                neg.acceptHandlers[Lower(d.items[d.pos][1])],
                neg.acceptHandlers[Lower(d.items[d.pos][1])].contentType)))
    ELSE [d EXCEPT !.pos = d.pos + 1]

-----------------------------------------------------------------------------
(* txspinneret.query: the other typed parsers, the combinators and parse. *)
(* In a query value an atom is one character, or one of the words "yes",  *)
(* "YES", "no", "NO", "true", "false", "1e20".                             *)

BoolObj(b) == [type |-> "bool", val |-> b]

\* A float, as mant * 10^exp.
FloatObj(m, e) == [type |-> "float", mant |-> m, exp |-> e]

\* A datetime in UTC, as mant * 10^exp seconds after the epoch.
DateTime(m, e) == [type |-> "datetime", mant |-> m, exp |-> e]

\* A list or tuple.
List(items) == [type |-> "list", items |-> items]

\* float(text): a run of decimal digits, or the literal 1e20, whitespace
\* around it aside; TypeError when text is None.
PyFloatText(text) ==
    IF text.type # "unicode" THEN Raise("TypeError")
    ELSE IF IsDigits(text.chars, DefaultBase)
    THEN Return(FloatObj(IntValue(Strip(text.chars), DefaultBase, 0), 0))
    ELSE IF Strip(text.chars) = <<"1e20">> THEN Return(FloatObj(1, 20))
    ELSE Raise("ValueError")

\* The except clause of query.Float.
CaughtByFloat == {"TypeError", "ValueError", "UnicodeDecodeError"}

\* float(...) on the completion of Text, inside the try of query.Float.
FloatOfText(text) ==
    IF ~Returned(text)
    THEN IF text.raised \in CaughtByFloat THEN Return(None) ELSE text
    ELSE IF ~Returned(PyFloatText(text.value)) THEN Return(None)
    ELSE PyFloatText(text.value)

\* query.Float(value, encoding)
QueryFloat(value, encoding) == FloatOfText(QueryText(value, encoding))

DefaultTrue == {<<"yes">>, <<"1">>, <<"true">>}

DefaultFalse == {<<"no">>, <<"0">>, <<"false">>}

\* The rest of query.Boolean once Text has returned text.
BooleanOfText(text, true, false) ==
    IF text = None THEN Return(None)
    ELSE IF Strip(Lower(text.chars)) \in true THEN Return(BoolObj(TRUE))
    ELSE IF Strip(Lower(text.chars)) \in false THEN Return(BoolObj(FALSE))
    ELSE Return(None)

\* query.Boolean(value, true, false, encoding)
QueryBoolean(value, true, false, encoding) ==
    IF ~Returned(QueryText(value, encoding)) THEN QueryText(value, encoding)
    ELSE BooleanOfText(QueryText(value, encoding).value, true, false)

\* The number of decimal digits of n >= 1.
RECURSIVE NumDigits(_)
NumDigits(n) == IF n < DefaultBase THEN 1 ELSE 1 + NumDigits(n \div DefaultBase)

\* The number of digits of datetime.max as a timestamp, 253402300799.
MaxTimestampDigits == 12

\* datetime.fromtimestamp(f / 10^divisorExp, tz): ValueError for a time
\* after the year 9999.  No timestamp of the model has exactly
\* MaxTimestampDigits digits.
FromTimestamp(f, divisorExp) ==
    IF f.mant > 0 /\ NumDigits(f.mant) + f.exp - divisorExp >= MaxTimestampDigits
    THEN Raise("ValueError")
    ELSE Return(DateTime(f.mant, f.exp - divisorExp))

\* The rest of query.Timestamp once Float has returned f.
TimestampOfFloat(f, divisorExp) ==
    IF f = None THEN Return(None) ELSE FromTimestamp(f, divisorExp)

\* query.Timestamp(value, _divisor, tz, encoding), tz being UTC and
\* _divisor being 10^divisorExp.
QueryTimestamp(value, divisorExp, encoding) ==
    TimestampOfFloat(QueryFloat(value, encoding).value, divisorExp)

\* _divisor=1000.
MsDivisorExp == 3

\* query.TimestampMs(value, encoding)
QueryTimestampMs(value, encoding) ==
    QueryTimestamp(value, MsDivisorExp, encoding)

\* A parser as a value: one of the typed parsers with its default
\* arguments, or what one(func, n) or many(func) returns.
Parser(name) == [type |-> "function", parser |-> name, func |-> None, n |-> 0]

one(func, n) == [type |-> "function", parser |-> "one", func |-> func, n |-> n]

many(func) == [type |-> "function", parser |-> "many", func |-> func, n |-> 0]

\* Any sequence passes for a sequence that is not text.
AnySequence(x) == x.type \in {"list", "bytes", "unicode"}

\* query._isSequenceTypeNotText(x)
IsSequenceTypeNotText(x) == x.type = "list"

RECURSIVE Apply(_, _, _)

\* map(func, items): the list of results, or the first exception.
MapResults(completions) ==
    IF \E i \in 1..Len(completions) : ~Returned(completions[i])
    THEN completions[CHOOSE i \in 1..Len(completions) :
                        /\ ~Returned(completions[i])
                        /\ \A j \in 1..(i - 1) : Returned(completions[j])]
    ELSE Return(List([i \in 1..Len(completions) |-> completions[i].value]))

Map(func, items, default) ==
    MapResults([i \in 1..Len(items) |-> Apply(func, items[i], default)])

\* The items of a sequence; the items of a string are its characters.
Items(x) ==
    IF x.type = "list" THEN x.items
    ELSE [i \in 1..Len(x.chars) |-> [type |-> x.type, chars |-> <<x.chars[i]>>]]

\* one(func, n)(x), through maybe(_one): None for None.
OneCall(func, n, x, default) ==
    IF x = None THEN Return(None)
    ELSE IF IsSequenceTypeNotText(x) /\ Len(Items(x)) > n
    THEN Apply(func, Items(x)[n + 1], default)
    ELSE Return(None)

\* many(func)(x), through maybe(_many, default=[]): the default list
\* itself for None, a new list otherwise.
ManyCall(func, x, default) ==
    IF x = None THEN Return(List(default))
    ELSE IF IsSequenceTypeNotText(x) THEN Map(func, Items(x), default)
    ELSE Return(List(<<>>))

DefaultDelimiter == ","

\* The rest of query.Delimited once Text has returned text.
DelimitedOfText(text, parser, delimiter, default) ==
    IF text = None \/ text = Unicode(<<>>) THEN Return(List(<<>>))
    ELSE Map(parser, [i \in 1..Len(Split(text.chars, delimiter)) |->
                        Unicode(Split(text.chars, delimiter)[i])], default)

\* query.Delimited(value, parser, delimiter, encoding)
QueryDelimited(value, parser, delimiter, encoding, default) ==
    IF ~Returned(QueryText(value, encoding)) THEN QueryText(value, encoding)
    ELSE DelimitedOfText(QueryText(value, encoding).value, parser, delimiter,
                         default)

\* parser(x) for a parser value.
Apply(p, x, default) ==
    CASE p.parser = "Text" -> QueryText(x, NoEncoding)
      [] p.parser = "Integer" -> QueryInteger(x, DefaultBase, NoEncoding)
      [] p.parser = "Float" -> QueryFloat(x, NoEncoding)
      [] p.parser = "Boolean" ->
            QueryBoolean(x, DefaultTrue, DefaultFalse, NoEncoding)
      [] p.parser = "Delimited" ->
            QueryDelimited(x, Parser("Text"), DefaultDelimiter, NoEncoding,
                           default)
      [] p.parser = "Timestamp" -> QueryTimestamp(x, 0, NoEncoding)
      [] p.parser = "TimestampMs" -> QueryTimestampMs(x, NoEncoding)
      [] p.parser = "one" -> OneCall(p.func, p.n, x, default)
      [] p.parser = "many" -> ManyCall(p.func, x, default)

\* A dict, as the function from its keys to its values.
Dict(items) == [type |-> "dict", items |-> items]

\* query.get(key, [])
QueryGet(query, key) == IF key \in DOMAIN query THEN query[key] ELSE List(<<>>)

\* The completions of parser(query.get(key, [])) for the keys of expected.
ParseItems(expected, query, default) ==
    [key \in DOMAIN expected |->
        Apply(expected[key], QueryGet(query, key), default)]

\* The dict of the values, or the exception of an item that raised.
DictOfCompletions(items) ==
    IF \E key \in DOMAIN items : ~Returned(items[key])
    THEN items[CHOOSE key \in DOMAIN items : ~Returned(items[key])]
    ELSE Return(Dict([key \in DOMAIN items |-> items[key].value]))

\* query.parse(expected, query)
QueryParse(expected, query, default) ==
    DictOfCompletions(ParseItems(expected, query, default))

-----------------------------------------------------------------------------
(* Bounds and input sets *)

MaxSegments == 2

MaxComponents == 2

MaxPatternLen == 3

\* A request with the given raw Content-Type and Accept headers.
Request(contentType, accept) == [contentType |-> contentType, accept |-> accept]

PlainRequest == Request(NoHeader, NoHeader)

Latin1Request ==
    Request(Header(<< <<"text/plain", ";", "charset", "=", "latin-1">> >>),
            NoHeader)

RouteRequests == {PlainRequest, Latin1Request}

\* Path segments: "", "a", "7" and the undecodable "\xff".
SegmentValues ==
    {Bytes(<<>>), Bytes(<<"a">>), Bytes(<<"7">>), Bytes(<<BadByte>>)}

SegmentLists == SeqsUpTo(SegmentValues, MaxSegments)

\* Route components: literals and dynamic matchers.
Components ==
    {Bytes(<<"a">>), Text("name", NoEncoding),
     Integer("n", DefaultBase, NoEncoding)}

\* Single-string path patterns over "a" and "/".
Patterns == SeqsUpTo({"a", "/"}, MaxPatternLen)

ComponentLists ==
    SeqsUpTo(Components, MaxComponents) \cup {<<Bytes(p)>> : p \in Patterns}

MaxRoutes == 2

\* Route handlers.
Handlers == {"foo", "nothing"}

\* Route specifications registered on the Router.
RouterComponentLists ==
    {<<>>, <<Bytes(<<"a">>)>>, <<Text("name", NoEncoding)>>}

\* Path segments seen by the Router: "a" and the undecodable "\xff".
RouterSegmentLists ==
    SeqsUpTo({Bytes(<<"a">>), Bytes(<<BadByte>>)}, MaxSegments)

\* The object the Router is bound to.
Owner == "thing"

MaxAcceptSpecs == 3

MaxNegotiateSpecs == 2

MaxHandlers == 2

\* One media-type specification of an Accept header: the type alone, or the
\* type with a q parameter.
NoQ == ""

AcceptSpec(mediaType, q) ==
    IF q = NoQ THEN <<mediaType>> ELSE <<mediaType, ";", "q", "=", q>>

\* The specifications joined with "," into one header value.
RECURSIVE JoinComma(_)
JoinComma(specs) ==
    IF specs = <<>> THEN <<>>
    ELSE IF Len(specs) = 1 THEN specs[1]
    ELSE specs[1] \o <<",">> \o JoinComma(Tail(specs))

\* The Accept headers that carry the specifications: all in one header
\* value, or one header value each.
AcceptHeaders(specs) == {Header(<<JoinComma(specs)>>), Header(specs)}

\* Requests for Accept parsing: no Accept header, or up to MaxAcceptSpecs
\* specifications over three media types and three q parameters.
AcceptSpecs ==
    {AcceptSpec(t, q) : t \in {"a/x", "A/X", "b/y"}, q \in {NoQ, "0.5", "1.0"}}

AcceptRequests ==
    {Request(NoHeader, NoHeader)} \cup
    {Request(NoHeader, h) :
        h \in UNION {AcceptHeaders(specs) :
                        specs \in SeqsUpTo(AcceptSpecs, MaxAcceptSpecs)}}

\* Requests for negotiation.
NegotiateSpecs ==
    {AcceptSpec(t, q) : t \in {"A/X", "b/y"}, q \in {NoQ, "0.5"}}

NegotiateRequests ==
    {Request(NoHeader, NoHeader)} \cup
    {Request(NoHeader, h) :
        h \in UNION {AcceptHeaders(specs) :
                        specs \in SeqsUpTo(NegotiateSpecs, MaxNegotiateSpecs)}}

\* The negotiable resources handed to ContentTypeNegotiator.
NegotiableHandlers ==
    {Handler("h1", <<"a/x">>, << <<"a/x">> >>),
     Handler("h2", <<"c/z">>, << <<"b/y">>, <<"c/z">> >>),
     Handler("h3", <<"c/z">>, << <<"c/z">>, <<"c/z">> >>),
     Handler("h4", <<"c/z">>, << <<"A/X">>, <<"c/z">> >>)}

HandlerLists == SeqsUpTo(NegotiableHandlers, MaxHandlers)

MaxValueLen == 2

MaxListLen == 2

MaxAppends == 1

\* The atoms of raw query values.
QueryAtoms == {"7", " ", ",", BadByte, "YES", "no", "1e20"}

\* The atoms of raw values that are text already.
TextAtoms == {"7", " ", "YES"}

\* Raw scalars: byte strings and text.
RawScalars ==
    {Bytes(cs) : cs \in SeqsUpTo(QueryAtoms, MaxValueLen)}
    \cup {Unicode(cs) : cs \in SeqsUpTo(TextAtoms, MaxValueLen)}

\* The values of one query argument, as twisted gives them: byte strings.
ArgValues == {Bytes(<<"7">>), Bytes(<<"YES">>), Bytes(<<BadByte>>)}

RawLists == {List(vs) : vs \in SeqsUpTo(ArgValues, MaxListLen)}

\* A value that is neither a sequence nor None: the int 42.
NonSequence == IntObj(42)

RawValues == {None, NonSequence} \cup RawScalars \cup RawLists

Encodings == {NoEncoding, "latin-1"}

Bases == {DefaultBase, 16}

\* The parsers handed to one, many and Delimited.
Funcs == {Parser("Text"), Parser("Integer"), Parser("Boolean")}

\* The indices handed to one.
Indices == 0..MaxListLen

\* The (true, false) pairs handed to Boolean: the defaults, and sets of the
\* caller's own.
BooleanSets ==
    {<<DefaultTrue, DefaultFalse>>,
     <<{<<"YES">>}, {<<"no">>}>>,
     <<{<<"7">>}, {<<"1e20">>}>>}

\* The query arguments and the expected parsers handed to parse.
ArgNames == {"foo", "bar"}

ExpectedNames == {"foo", "baz"}

Queries == UNION {[ks -> RawLists] : ks \in SUBSET ArgNames}

ExpectedParsers ==
    {one(Parser("Integer"), 0), one(Parser("Text"), 1),
     many(Parser("Boolean"))}

Expecteds == UNION {[ks -> ExpectedParsers] : ks \in SUBSET ExpectedNames}

MaxDispatches == 2

Dispatches == 1..MaxDispatches

\* The tables shared by the dispatches in flight.
SharedTables ==
    {<<RouteEntry("foo", Matcher(<<Bytes(<<"a">>)>>, FALSE)),
       RouteEntry("nothing", Matcher(<<Text("name", NoEncoding)>>, TRUE))>>,
     <<RouteEntry("nothing", Matcher(<<Bytes(<<"a">>)>>, TRUE)),
       RouteEntry("foo", Matcher(<<>>, FALSE))>>}

SharedNegotiators ==
    {NewNegotiator(hs, TRUE).value :
        hs \in {<<Handler("h1", <<"a/x">>, << <<"a/x">> >>),
                  Handler("h2", <<"c/z">>, << <<"b/y">>, <<"c/z">> >>)>>}}
    \cup
    {NewNegotiator(hs, FALSE).value :
        hs \in {<<Handler("h1", <<"a/x">>, << <<"a/x">> >>)>>}}

\* The requests of the dispatches in flight: without an Accept header, and
\* accepting b/y before a/x.
SharedRequests ==
    {PlainRequest,
     Request(NoHeader, Header(<< <<"b/y", ",", "a/x">> >>))}

\* The segments a dispatch is given.
DispatchSegments ==
    {<<>>, <<Bytes(<<"a">>)>>, <<Bytes(<<"a">>), Bytes(<<BadByte>>)>>,
     <<Bytes(<<BadByte>>)>>}

-----------------------------------------------------------------------------
(* State *)

NoResult == [op |-> "", raised |-> "", value |-> None]

Result(op, completion) ==
    [op |-> op, raised |-> completion.raised, value |-> completion.value]

NoNegotiator == [built |-> FALSE]

NoConfig == [handlers |-> <<>>, fallback |-> FALSE]

\* Calling route(*components) / subroute(*components) directly
\* (as the tests of route.py do) and applying the matcher to the request.

\* route(*components)
Route(components) ==
    /\ ~matcher.built
    /\ matcher' = Matcher(components, FALSE)
    /\ UNCHANGED <<routes, request, segments, result, calls, negotiator, config, rawValue, queryArgs, manyDefault,
                   inflight,
                   heap,
                   renders>>

\* subroute(*components)
Subroute(components) ==
    /\ ~matcher.built
    /\ matcher' = Matcher(components, TRUE)
    /\ UNCHANGED <<routes, request, segments, result, calls, negotiator, config, rawValue, queryArgs, manyDefault,
                   inflight,
                   heap,
                   renders>>

\* matcher(request, segments)
CallMatcher ==
    /\ matcher.built
    /\ LET r == ApplyMatcher(matcher, request, segments)
       IN  /\ result' = Result("matchRoute", r)
           /\ segments' = IF Returned(r) THEN r.value.segments ELSE segments
    /\ UNCHANGED <<routes, matcher, request, calls, negotiator, config, rawValue, queryArgs, manyDefault,
                   inflight,
                   heap,
                   renders>>

InitMatch ==
    /\ routes = <<>>
    /\ matcher = NoMatcher
    /\ request \in RouteRequests
    /\ segments \in SegmentLists
    /\ result = NoResult
    /\ calls = <<>>
    /\ negotiator = NoNegotiator
    /\ config = NoConfig
    /\ rawValue = None
    /\ queryArgs = EmptyDict
    /\ manyDefault = <<>>
    /\ inflight = <<>>
    /\ heap = NoHeap
    /\ renders = NoRenders

NextMatch ==
    \/ \E c \in ComponentLists : Route(c)
    \/ \E c \in ComponentLists : Subroute(c)
    \/ CallMatcher

SpecMatch == InitMatch /\ [][NextMatch]_vars

\* Router.route(*components) decorating f: _addRoute(f, route(*components))
RouterRoute(f, components) ==
    /\ Len(routes) < MaxRoutes
    /\ routes' = Append(routes, RouteEntry(f, Matcher(components, FALSE)))
    /\ result' = Result("route", Return(None))
    /\ calls' = <<>>
    /\ config' = NoConfig
    /\ UNCHANGED <<matcher, request, segments, negotiator, rawValue, queryArgs, manyDefault,
                   inflight,
                   heap,
                   renders>>

\* Router.subroute(*components) decorating f
RouterSubroute(f, components) ==
    /\ Len(routes) < MaxRoutes
    /\ routes' = Append(routes, RouteEntry(f, Matcher(components, TRUE)))
    /\ result' = Result("subroute", Return(None))
    /\ calls' = <<>>
    /\ config' = NoConfig
    /\ UNCHANGED <<matcher, request, segments, negotiator, rawValue, queryArgs, manyDefault,
                   inflight,
                   heap,
                   renders>>

\* _RouterResource.locateChild(request, segments)
LocateChild ==
    /\ LET r == RouterMatchRoute(routes, Owner, request, segments)
       IN  /\ result' = Result("locateChild", r)
           /\ calls' = r.calls
           /\ segments' = r.segments
           /\ config' = [tried |-> r.tried]
    /\ UNCHANGED <<routes, matcher, request, negotiator, rawValue, queryArgs, manyDefault,
                   inflight,
                   heap,
                   renders>>

\* _RouterResource.render(request)
RenderRouter ==
    /\ LET r == RouterRender(routes, Owner, request, segments)
       IN  /\ result' = Result("render", r)
           /\ calls' = r.calls
           /\ config' = [tried |-> r.tried]
    /\ UNCHANGED <<routes, matcher, request, segments, negotiator,
                   rawValue, queryArgs, manyDefault,
                   inflight,
                   heap,
                   renders>>

Init ==
    /\ routes = <<>>
    /\ matcher = NoMatcher
    /\ request = PlainRequest
    /\ segments \in RouterSegmentLists
    /\ result = NoResult
    /\ calls = <<>>
    /\ negotiator = NoNegotiator
    /\ config = NoConfig
    /\ rawValue = None
    /\ queryArgs = EmptyDict
    /\ manyDefault = <<>>
    /\ inflight = <<>>
    /\ heap = NoHeap
    /\ renders = NoRenders

Next ==
    \/ \E f \in Handlers, c \in RouterComponentLists : RouterRoute(f, c)
    \/ \E f \in Handlers, c \in RouterComponentLists : RouterSubroute(f, c)
    \/ LocateChild
    \/ RenderRouter

Spec == Init /\ [][Next]_vars

\* _parseAccept(request.requestHeaders.getRawHeaders('Accept'))
ParseAcceptHeader ==
    /\ result' = Result("parseAccept", ParseAccept(request.accept))
    /\ UNCHANGED <<routes, matcher, request, segments, calls, negotiator, config, rawValue, queryArgs, manyDefault,
                   inflight,
                   heap,
                   renders>>

InitAccept ==
    /\ routes = <<>>
    /\ matcher = NoMatcher
    /\ request \in AcceptRequests
    /\ segments = <<>>
    /\ result = NoResult
    /\ calls = <<>>
    /\ negotiator = NoNegotiator
    /\ config = NoConfig
    /\ rawValue = None
    /\ queryArgs = EmptyDict
    /\ manyDefault = <<>>
    /\ inflight = <<>>
    /\ heap = NoHeap
    /\ renders = NoRenders

NextAccept == ParseAcceptHeader

SpecAccept == InitAccept /\ [][NextAccept]_vars

\* ContentTypeNegotiator(handlers, fallback), called once at setup.
Construct(handlers, fallback) ==
    /\ ~negotiator.built
    /\ result = NoResult
    /\ LET r == NewNegotiator(handlers, fallback)
       IN  /\ negotiator' = IF Returned(r) THEN r.value ELSE negotiator
           /\ result' = Result("construct",
                               IF Returned(r) THEN Return(None) ELSE r)
    /\ config' = [handlers |-> handlers, fallback |-> fallback]
    /\ UNCHANGED <<routes, matcher, request, segments, calls, rawValue, queryArgs, manyDefault,
                   inflight,
                   heap,
                   renders>>

\* negotiator._negotiateHandler(request)
Negotiate ==
    /\ negotiator.built
    /\ result' = Result("negotiateHandler",
                        NegotiateHandler(negotiator, request))
    /\ UNCHANGED <<routes, matcher, request, segments, calls, negotiator, config, rawValue, queryArgs, manyDefault,
                   inflight,
                   heap,
                   renders>>

\* negotiator.render(request)
Render ==
    /\ negotiator.built
    /\ LET r == NegotiatorRender(negotiator, request)
       IN  /\ result' = Result("render", r)
           /\ calls' = r.events
    /\ UNCHANGED <<routes, matcher, request, segments, negotiator, config, rawValue, queryArgs, manyDefault,
                   inflight,
                   heap,
                   renders>>

InitNegotiate ==
    /\ routes = <<>>
    /\ matcher = NoMatcher
    /\ request \in NegotiateRequests
    /\ segments = <<>>
    /\ result = NoResult
    /\ calls = <<>>
    /\ negotiator = NoNegotiator
    /\ config = NoConfig
    /\ rawValue = None
    /\ queryArgs = EmptyDict
    /\ manyDefault = <<>>
    /\ inflight = <<>>
    /\ heap = NoHeap
    /\ renders = NoRenders

NextNegotiate ==
    \/ \E hs \in HandlerLists, fb \in BOOLEAN : Construct(hs, fb)
    \/ Negotiate
    \/ Render

SpecNegotiate == InitNegotiate /\ [][NextNegotiate]_vars

-----------------------------------------------------------------------------
(* Calling the typed parsers and the combinators of query.py on a raw     *)
(* value, and appending to the list many returned for None.  Text and      *)
(* Boolean are called with and without an encoding, the other parsers      *)
(* without.                                                                *)

CallText(encoding) ==
    /\ result' = Result("Text", QueryText(rawValue, encoding))
    /\ config' = [encoding |-> encoding]
    /\ calls' = <<>>
    /\ UNCHANGED <<routes, matcher, request, segments, negotiator, rawValue,
                   queryArgs, manyDefault,
                   inflight,
                   heap,
                   renders>>

CallInteger(base) ==
    /\ result' = Result("Integer", QueryInteger(rawValue, base, NoEncoding))
    /\ config' = [base |-> base]
    /\ calls' = <<>>
    /\ UNCHANGED <<routes, matcher, request, segments, negotiator, rawValue,
                   queryArgs, manyDefault,
                   inflight,
                   heap,
                   renders>>

CallFloat ==
    /\ result' = Result("Float", QueryFloat(rawValue, NoEncoding))
    /\ config' = NoConfig
    /\ calls' = <<>>
    /\ UNCHANGED <<routes, matcher, request, segments, negotiator, rawValue,
                   queryArgs, manyDefault,
                   inflight,
                   heap,
                   renders>>

CallBoolean(true, false, encoding) ==
    /\ result' = Result("Boolean",
                        QueryBoolean(rawValue, true, false, encoding))
    /\ config' = [true |-> true, false |-> false, encoding |-> encoding]
    /\ calls' = <<>>
    /\ UNCHANGED <<routes, matcher, request, segments, negotiator, rawValue,
                   queryArgs, manyDefault,
                   inflight,
                   heap,
                   renders>>

CallDelimited(parser) ==
    /\ result' = Result("Delimited",
                        QueryDelimited(rawValue, parser, DefaultDelimiter,
                                       NoEncoding, manyDefault))
    /\ config' = [parser |-> parser]
    /\ calls' = <<>>
    /\ UNCHANGED <<routes, matcher, request, segments, negotiator, rawValue,
                   queryArgs, manyDefault,
                   inflight,
                   heap,
                   renders>>

CallTimestamp ==
    /\ result' = Result("Timestamp", QueryTimestamp(rawValue, 0, NoEncoding))
    /\ config' = NoConfig
    /\ calls' = <<>>
    /\ UNCHANGED <<routes, matcher, request, segments, negotiator, rawValue,
                   queryArgs, manyDefault,
                   inflight,
                   heap,
                   renders>>

CallTimestampMs ==
    /\ result' = Result("TimestampMs", QueryTimestampMs(rawValue, NoEncoding))
    /\ config' = NoConfig
    /\ calls' = <<>>
    /\ UNCHANGED <<routes, matcher, request, segments, negotiator, rawValue,
                   queryArgs, manyDefault,
                   inflight,
                   heap,
                   renders>>

\* The values func is invoked with by one(func, n)(x), in order.
OneInvocations(n, x) ==
    IF x # None /\ IsSequenceTypeNotText(x) /\ Len(Items(x)) > n
    THEN <<Items(x)[n + 1]>> ELSE <<>>

\* one(func, n)(rawValue)
CallOne(func, n) ==
    /\ result' = Result("one", OneCall(func, n, rawValue, manyDefault))
    /\ config' = [func |-> func, n |-> n]
    /\ calls' = OneInvocations(n, rawValue)
    /\ UNCHANGED <<routes, matcher, request, segments, negotiator, rawValue,
                   queryArgs, manyDefault,
                   inflight,
                   heap,
                   renders>>

\* manyParser(rawValue), manyParser being many(func)
CallMany(func) ==
    /\ result' = Result("many", ManyCall(func, rawValue, manyDefault))
    /\ config' = [func |-> func]
    /\ calls' = <<>>
    /\ UNCHANGED <<routes, matcher, request, segments, negotiator, rawValue,
                   queryArgs, manyDefault,
                   inflight,
                   heap,
                   renders>>

\* The caller appends v to the list that manyParser(None) returned: the
\* list is the default of maybe's closure, so the default grows with it.
AppendToResult(v) ==
    /\ result.op = "many"
    /\ result.raised = ""
    /\ rawValue = None
    /\ Len(manyDefault) < MaxAppends
    /\ manyDefault' = Append(manyDefault, v)
    /\ result' = Result("append", Return(None))
    /\ UNCHANGED <<routes, matcher, request, segments, calls, negotiator,
                   config, rawValue, queryArgs,
                   inflight,
                   heap,
                   renders>>

InitQuery ==
    /\ routes = <<>>
    /\ matcher = NoMatcher
    /\ request = PlainRequest
    /\ segments = <<>>
    /\ result = NoResult
    /\ calls = <<>>
    /\ negotiator = NoNegotiator
    /\ config = NoConfig
    /\ rawValue \in RawValues
    /\ queryArgs = EmptyDict
    /\ manyDefault = <<>>
    /\ inflight = <<>>
    /\ heap = NoHeap
    /\ renders = NoRenders

NextQuery ==
    \/ \E e \in Encodings : CallText(e)
    \/ \E b \in Bases : CallInteger(b)
    \/ CallFloat
    \/ \E tf \in BooleanSets, e \in Encodings : CallBoolean(tf[1], tf[2], e)
    \/ \E f \in Funcs : CallDelimited(f)
    \/ CallTimestamp
    \/ CallTimestampMs
    \/ \E f \in Funcs, n \in Indices : CallOne(f, n)
    \/ \E f \in Funcs : CallMany(f)
    \/ \E v \in ArgValues : AppendToResult(v)

SpecQuery == InitQuery /\ [][NextQuery]_vars

\* parse(expected, queryArgs)
Parse(expected) ==
    /\ result' = Result("parse", QueryParse(expected, queryArgs, manyDefault))
    /\ config' = [expected |-> expected]
    /\ UNCHANGED <<routes, matcher, request, segments, calls, negotiator,
                   rawValue, queryArgs, manyDefault,
                   inflight,
                   heap,
                   renders>>

InitParse ==
    /\ routes = <<>>
    /\ matcher = NoMatcher
    /\ request = PlainRequest
    /\ segments = <<>>
    /\ result = NoResult
    /\ calls = <<>>
    /\ negotiator = NoNegotiator
    /\ config = NoConfig
    /\ rawValue = None
    /\ queryArgs \in Queries
    /\ manyDefault = <<>>
    /\ inflight = <<>>
    /\ heap = NoHeap
    /\ renders = NoRenders

NextParse == \E expected \in Expecteds : Parse(expected)

SpecParse == InitParse /\ [][NextParse]_vars

-----------------------------------------------------------------------------
(* Several dispatches in flight over one Router table and one negotiator. *)

\* A dispatch of the Router begins, in place of one that is over or in a
\* free place.
BeginDispatch(d, segs) ==
    /\ inflight[d].kind = "idle" \/ inflight[d].done
    /\ inflight' = [inflight EXCEPT ![d] = RouteDispatch(segs)]
    /\ UNCHANGED <<routes, matcher, request, segments, result, calls,
                   negotiator, config, rawValue, queryArgs, manyDefault,
                   heap,
                   renders>>

\* A negotiation begins.
BeginNegotiation(d) ==
    /\ inflight[d].kind = "idle" \/ inflight[d].done
    /\ inflight' = [inflight EXCEPT ![d] = Negotiation]
    /\ UNCHANGED <<routes, matcher, request, segments, result, calls,
                   negotiator, config, rawValue, queryArgs, manyDefault,
                   heap,
                   renders>>

\* Dispatch d runs one iteration of the loop of _matchRoute.
StepDispatch(d) ==
    /\ inflight[d].kind = "route"
    /\ ~inflight[d].done
    /\ inflight' = [inflight EXCEPT
                        ![d] = RouteStep(routes, Owner, request, inflight[d])]
    /\ routes' = TableAfterStep(routes, inflight[d].pos)
    /\ UNCHANGED <<matcher, request, segments, result, calls, negotiator,
                   config, rawValue, queryArgs, manyDefault,
                   heap,
                   renders>>

\* Negotiation d runs one iteration of the loop of _negotiateHandler.
StepNegotiation(d) ==
    /\ inflight[d].kind = "negotiate"
    /\ ~inflight[d].done
    /\ inflight' = [inflight EXCEPT
                        ![d] = NegotiationStep(negotiator, request,
                                               inflight[d])]
    /\ UNCHANGED <<routes, matcher, request, segments, result, calls,
                   negotiator, config, rawValue, queryArgs, manyDefault,
                   heap,
                   renders>>

InitConcurrent ==
    /\ routes \in SharedTables
    /\ matcher = NoMatcher
    /\ request \in SharedRequests
    /\ segments = <<>>
    /\ result = NoResult
    /\ calls = <<>>
    /\ negotiator \in SharedNegotiators
    /\ config = [routes |-> routes, negotiator |-> negotiator]
    /\ rawValue = None
    /\ queryArgs = EmptyDict
    /\ manyDefault = <<>>
    /\ inflight = [d \in Dispatches |-> NoDispatch]
    /\ heap = NoHeap
    /\ renders = NoRenders

NextConcurrent ==
    \/ \E d \in Dispatches, segs \in DispatchSegments : BeginDispatch(d, segs)
    \/ \E d \in Dispatches : BeginNegotiation(d)
    \/ \E d \in Dispatches : StepDispatch(d)
    \/ \E d \in Dispatches : StepNegotiation(d)

SpecConcurrent == InitConcurrent /\ [][NextConcurrent]_vars

-----------------------------------------------------------------------------
(* Properties of route(...) and subroute(...), under SpecMatch *)

\* The last call was a matcher call that returned.
MatcherReturned == result.op = "matchRoute" /\ result.raised = ""

\* The last matcher call matched / reported NoMatch.
MatcherMatched == MatcherReturned /\ result.value.matches # None

MatcherNoMatch == MatcherReturned /\ result.value.matches = None

\* len(R) after the single-string convenience: a sole string counts one
\* component more than it has "/" after one leading "/" is set aside.
ComponentCount(R) ==
    IF Len(R) = 1 /\ R[1].type = "bytes"
    THEN LET s == R[1].chars
             from == IF s # <<>> /\ s[1] = "/" THEN 2 ELSE 1
         IN  Cardinality({i \in from..Len(s) : s[i] = "/"}) + 1
    ELSE Len(R)

\* C1: whenever route(R) or subroute(R) matches S, len(S) >= len(R) and the
\* remainder is S without its first len(R) elements; for route(R) the match
\* also means len(S) = len(R), so the remainder is empty.
C1_MatchConsumesPrefix ==
    MatcherMatched =>
        LET n == ComponentCount(matcher.components)
        IN  /\ Len(segments) >= n
            /\ result.value.remaining = SubSeq(segments, n + 1, Len(segments))
            /\ ~matcher.partialMatching =>
                  Len(segments) = n /\ result.value.remaining = <<>>

\* A subroute of one or more components matched and left a remainder.
C1_Witness ==
    /\ MatcherMatched
    /\ matcher.partialMatching
    /\ ComponentCount(matcher.components) >= 1
    /\ result.value.remaining # <<>>
    /\ result.value.matches.items # <<>>

\* C2: a matcher call that reports NoMatch returns the caller's segments,
\* whole and in order, and no returning matcher call changes the caller's
\* list, whether it matched or not.
C2_NoMatchReturnsOriginal ==
    [][(result'.op = "matchRoute" /\ result'.raised = "") =>
          /\ segments' = segments
          /\ result'.value.matches = None =>
                result'.value.remaining = segments]_vars

\* NoMatch after the first of two components had matched its segment.
C2_Witness ==
    /\ MatcherNoMatch
    /\ Len(matcher.components) = 2
    /\ Len(segments) = 2
    /\ matcher.components[1] = segments[1]
    /\ Callable(matcher.components[2])

\* A dynamic component cannot parse a segment when its parser yields no
\* value for it.
CannotParse(us, req, them) ==
    LET m == Match(us, req, them)
    IN  ~Returned(m) \/ m.value.match = None

C5_NullRoute ==
    (result.op = "matchRoute" /\ matcher.components = <<>>) =>
        /\ result.raised = ""
        /\ IF matcher.partialMatching \/ segments = <<>>
           THEN /\ result.value.matches = OrderedDict(<<>>)
                /\ result.value.remaining = segments
           ELSE /\ result.value.matches = None
                /\ result.value.remaining = segments

\* subroute() was applied to a non-empty segment list.
C5_Witness ==
    /\ result.op = "matchRoute"
    /\ matcher.components = <<>>
    /\ matcher.partialMatching
    /\ segments # <<>>

\* The component list a sole string p stands for: p without one leading
\* "/", split on "/".
PatternComponents(p) ==
    LET t == IF p # <<>> /\ p[1] = "/" THEN Tail(p) ELSE p
        pieces == Split(t, "/")
    IN  [i \in 1..Len(pieces) |-> Bytes(pieces[i])]

\* C6: route(p) and subroute(p), p a sole string, give on every segment
\* list the result of matching the component list p stands for.
C6_PatternIsComponentList ==
    (/\ result.op = "matchRoute"
     /\ Len(matcher.components) = 1
     /\ matcher.components[1].type = "bytes")
    => LET ref == MatchLoop(PatternComponents(matcher.components[1].chars),
                            request, segments, matcher.partialMatching, 1,
                            OrderedDict(<<>>), segments)
       IN  /\ result.raised = ref.raised
           /\ result.value = ref.value

-----------------------------------------------------------------------------
(* Properties of Router dispatch, under Spec *)

\* What entry i's matcher gives on the request and the segments.
EntryOutcome(i) == ApplyMatcher(routes[i].route, request, segments)

\* Entry i's matcher succeeds / reports NoMatch.
EntryMatches(i) ==
    Returned(EntryOutcome(i)) /\ EntryOutcome(i).value.matches # None

EntryNoMatch(i) ==
    Returned(EntryOutcome(i)) /\ EntryOutcome(i).value.matches = None

\* Dispatch reaches entry i: every entry registered before it reported
\* NoMatch.
Reached(i) == \A j \in 1..(i - 1) : EntryNoMatch(j)

\* C3: dispatch runs the matchers in registration order and the first one
\* that succeeds wins: its entry's handler is the one handler invoked, as
\* handler(owner, request, params) with the parameters of that match, and
\* dispatch returns (the handler's result, the remainder of that match),
\* whatever later entries would match.
C3_FirstMatchWins ==
    result.op = "locateChild" =>
        /\ \A i \in 1..Len(routes) :
              (Reached(i) /\ EntryMatches(i)) =>
                  LET m == EntryOutcome(i).value
                  IN  /\ calls = <<HandlerCall(routes[i].meth, Owner, request,
                                               m.matches)>>
                      /\ result.raised = ""
                      /\ result.value =
                            Located(HandlerResult(routes[i].meth, Owner,
                                                  request, m.matches),
                                    m.remaining)
        /\ calls # <<>> =>
              \E i \in 1..Len(routes) : Reached(i) /\ EntryMatches(i)

\* Two entries with different handlers both match, and one was dispatched.
C3_Witness ==
    /\ result.op = "locateChild"
    /\ Len(routes) = 2
    /\ EntryMatches(1) /\ EntryMatches(2)
    /\ routes[1].meth # routes[2].meth
    /\ routes[1].route # routes[2].route
    /\ calls # <<>>

\* C7: when every entry's matcher reports NoMatch on the segments, dispatch
\* returns (None, the segments as given) and invokes no handler.
C7_NoEntryMatches ==
    (result.op = "locateChild" /\ \A i \in 1..Len(routes) : EntryNoMatch(i))
    => /\ result.raised = ""
       /\ result.value = Located(None, segments)
       /\ calls = <<>>

\* Dispatch over two entries, neither of which matches.
C7_Witness ==
    /\ result.op = "locateChild"
    /\ Len(routes) = 2
    /\ segments # <<>>
    /\ EntryNoMatch(1) /\ EntryNoMatch(2)

-----------------------------------------------------------------------------
(* Properties of content negotiation, under SpecNegotiate *)

\* The client's media-type specifications in input order: header value
\* order, then left to right within a value.
ClientEntries == SplitHeaders(request.accept).value

\* The numeric q of the client's i-th specification, in tenths.
ClientQ(i) == SortKey(ClientEntries[i]).value

\* The client's i-th media type, case-folded, is a key of the table.
Registered(i) ==
    Lower(ClientEntries[i].key) \in DOMAIN negotiator.acceptHandlers

\* No registered specification has a higher q than the i-th, or the same q
\* and an earlier place.
Preferred(i) ==
    /\ Registered(i)
    /\ \A j \in 1..Len(ClientEntries) :
          Registered(j) =>
              \/ ClientQ(j) < ClientQ(i)
              \/ ClientQ(j) = ClientQ(i) /\ j >= i

\* C8: when some media type of the client is registered, negotiation
\* returns the handler registered for the preferred one (highest q, the
\* earliest among equal q) together with that handler's declared
\* contentType, never the handler of a less preferred media type.
C8_FirstAcceptedWins ==
    (/\ result.op = "negotiateHandler"
     /\ request.accept.present
     /\ \E i \in 1..Len(ClientEntries) : Registered(i))
    => /\ result.raised = ""
       /\ \E i \in 1..Len(ClientEntries) :
             /\ Preferred(i)
             /\ LET h == negotiator.acceptHandlers[Lower(ClientEntries[i].key)]
                IN  result.value = Negotiated(h, h.contentType)

\* Two media types registered for different handlers, the preferred one
\* second in the header, and a contentType that is not the client's type.
C8_Witness ==
    /\ result.op = "negotiateHandler"
    /\ request.accept.present
    /\ Len(ClientEntries) = 2
    /\ Registered(1) /\ Registered(2)
    /\ Preferred(2)
    /\ negotiator.acceptHandlers[Lower(ClientEntries[1].key)]
          # negotiator.acceptHandlers[Lower(ClientEntries[2].key)]
    /\ result.raised = ""
    /\ result.value.contentType # Bytes(Lower(ClientEntries[2].key))

\* All accept types the handlers declare, in declaration order.
RECURSIVE DeclaredTypes(_)
DeclaredTypes(handlers) ==
    IF handlers = <<>> THEN <<>>
    ELSE Head(handlers).acceptTypes \o DeclaredTypes(Tail(handlers))

\* Some accept type is declared more than once.
HasDuplicate(handlers) ==
    LET declared == DeclaredTypes(handlers)
    IN  \E i, j \in 1..Len(declared) : i < j /\ declared[i] = declared[j]

\* C10: constructing a negotiator from handlers that declare some accept
\* type more than once raises ValueError and leaves no negotiator;
\* constructing one from handlers whose accept types are all distinct
\* succeeds and gives a negotiator over those handlers.
C10_DuplicateAcceptType ==
    result.op = "construct" =>
        IF HasDuplicate(config.handlers)
        THEN /\ result.raised = "ValueError"
             /\ negotiator = NoNegotiator
        ELSE /\ result.raised = ""
             /\ negotiator.built
             /\ negotiator.handlers = config.handlers
             /\ negotiator.fallback = config.fallback

\* A construction from two different handlers that declare the same accept
\* type has failed.
C10_Witness ==
    /\ result.op = "construct"
    /\ result.raised = "ValueError"
    /\ negotiator = NoNegotiator
    /\ Len(config.handlers) = 2
    /\ config.handlers[1] # config.handlers[2]
    /\ ~HasDuplicate(<<config.handlers[1]>>)
    /\ ~HasDuplicate(<<config.handlers[2]>>)

-----------------------------------------------------------------------------
(* Properties of Accept parsing, under SpecAccept *)

\* The numeric q, in tenths, of the k-th item of the parsed Accept header.
ItemQ(k) ==
    PyFloat(DictGet(result.value.items[k][2], <<"q">>, DefaultQ)).value

\* The place in the header of the first specification with the media type
\* and q of the k-th item.
ItemPlace(k) ==
    CHOOSE i \in 1..Len(ClientEntries) :
        /\ ClientEntries[i].key = result.value.items[k][1]
        /\ ClientQ(i) = ItemQ(k)
        /\ \A j \in 1..(i - 1) :
              ~(/\ ClientEntries[j].key = result.value.items[k][1]
                /\ ClientQ(j) = ItemQ(k))

\* C9: the parsed Accept header lists the client's media types, every one
\* of them, in descending order of q (absent q being 1.0), and items of
\* equal q in the order the header has them.
C9_DescendingQ ==
    (result.op = "parseAccept" /\ result.raised = "") =>
        /\ {result.value.items[k][1] : k \in 1..Len(result.value.items)}
              = {ClientEntries[i].key : i \in 1..Len(ClientEntries)}
        /\ \A k \in 1..(Len(result.value.items) - 1) :
              \/ ItemQ(k) > ItemQ(k + 1)
              \/ ItemQ(k) = ItemQ(k + 1) /\ ItemPlace(k) < ItemPlace(k + 1)

-----------------------------------------------------------------------------
(* Case folding in negotiation, under SpecNegotiate *)

\* The client's i-th media type equals, up to case, an accept type that
\* handler h declares.
FoldMatches(i, h) ==
    \E j \in 1..Len(h.acceptTypes) :
        Lower(h.acceptTypes[j]) = Lower(ClientEntries[i].key)

\* Some handler of the negotiator declares the client's i-th media type up
\* to case.
FoldRegistered(i) ==
    \E k \in 1..Len(negotiator.handlers) :
        FoldMatches(i, negotiator.handlers[k])

\* No specification the handlers declare up to case has a higher q than the
\* i-th, or the same q and an earlier place.
FoldPreferred(i) ==
    /\ FoldRegistered(i)
    /\ \A j \in 1..Len(ClientEntries) :
          FoldRegistered(j) =>
              \/ ClientQ(j) < ClientQ(i)
              \/ ClientQ(j) = ClientQ(i) /\ j >= i

\* C11: a client media type and a declared accept type match when they are
\* equal up to case: when some handler declares, up to case, a media type
\* of the client, negotiation returns a handler that declares the preferred
\* such media type up to case, with its contentType.
C11_CaseInsensitiveMatch ==
    (/\ result.op = "negotiateHandler"
     /\ request.accept.present
     /\ \E i \in 1..Len(ClientEntries) : FoldRegistered(i))
    => /\ result.raised = ""
       /\ \E i \in 1..Len(ClientEntries), k \in 1..Len(negotiator.handlers) :
             /\ FoldPreferred(i)
             /\ FoldMatches(i, negotiator.handlers[k])
             /\ result.value = Negotiated(negotiator.handlers[k],
                                          negotiator.handlers[k].contentType)

-----------------------------------------------------------------------------
(* Fallback, under SpecNegotiate *)

\* C12: when the request has an Accept header and none of its media types
\* is registered, negotiation with fallback returns the first handler given
\* at construction with that handler's contentType, whatever it accepts,
\* and negotiation without fallback returns (NotAcceptable, None).
C12_NoneRegistered ==
    (/\ result.op = "negotiateHandler"
     /\ request.accept.present
     /\ negotiator.handlers # <<>>
     /\ \A i \in 1..Len(ClientEntries) : ~Registered(i))
    => /\ result.raised = ""
       /\ IF negotiator.fallback
          THEN /\ result.value.resource = config.handlers[1]
               /\ result.value.contentType = config.handlers[1].contentType
          ELSE /\ result.value.resource = NotAcceptable
               /\ result.value.contentType = None

\* Negotiation fell back to the first of two different handlers, neither
\* registered for the media type the client named.
C12_Witness ==
    /\ result.op = "negotiateHandler"
    /\ request.accept.present
    /\ Len(ClientEntries) >= 1
    /\ \A i \in 1..Len(ClientEntries) : ~Registered(i)
    /\ negotiator.fallback
    /\ Len(config.handlers) = 2
    /\ config.handlers[1] # config.handlers[2]
    /\ result.value.resource = config.handlers[1]

-----------------------------------------------------------------------------
(* Rendering the negotiated resource, under SpecNegotiate *)

\* The positions of the events of one kind in the last render.
EventsOf(kind) == {i \in 1..Len(calls) : calls[i].event = kind}

\* What negotiation gives for the request at hand.
Selected == NegotiateHandler(negotiator, request).value.resource

\* C13: when a render returns and negotiation selected a handler, by match
\* or by fallback, the Content-Type header was set once, to the handler's
\* declared contentType, before the handler's render was invoked; when the
\* outcome is not-acceptable no Content-Type header was set, the response
\* code is 406 and the body is empty.
C13_HeaderBeforeRender ==
    (result.op = "render" /\ result.raised = "")
    => IF Selected # NotAcceptable
       THEN /\ \E i \in EventsOf("setHeader") :
                  /\ EventsOf("setHeader") = {i}
                  /\ calls[i] = SetHeader("Content-Type", Selected.contentType)
                  /\ \A j \in EventsOf("render") : i < j
            /\ EventsOf("render") # {}
            /\ \A j \in EventsOf("render") : calls[j].resource = Selected
       ELSE /\ EventsOf("setHeader") = {}
            /\ \E j \in EventsOf("setResponseCode") :
                  calls[j].code = NOT_ACCEPTABLE
            /\ \A j \in EventsOf("setResponseCode") :
                  calls[j].code = NOT_ACCEPTABLE
            /\ result.value = Bytes(<<>>)

\* A negotiator of two handlers, none of them registered for a type the
\* client accepts, has rendered its fallback handler.
C13_Witness ==
    /\ result.op = "render"
    /\ result.raised = ""
    /\ Selected # NotAcceptable
    /\ negotiator.fallback
    /\ \A i \in 1..Len(ClientEntries) : ~Registered(i)
    /\ Len(negotiator.handlers) = 2

-----------------------------------------------------------------------------
(* Properties of the typed parsers, under SpecQuery *)

TypedParsers ==
    {"Text", "Integer", "Float", "Boolean", "Delimited", "Timestamp",
     "TimestampMs"}

\* C14: every typed value parser, given an absent value, a byte string or
\* text, returns (a typed value or None) and never raises.
C14_ParsersNeverRaise ==
    (/\ result.op \in TypedParsers
     /\ rawValue.type \in {"NoneType", "bytes", "unicode"})
    => result.raised = ""

-----------------------------------------------------------------------------
(* Order of the parameter mapping, under SpecMatch *)

\* The names of the dynamic components of R, in declaration order.
RECURSIVE DynamicNames(_)
DynamicNames(R) ==
    IF R = <<>> THEN <<>>
    ELSE (IF R[1].type = "function" THEN <<R[1].name>> ELSE <<>>)
         \o DynamicNames(Tail(R))

\* names with every repetition of an earlier name left out.
RECURSIVE FirstOccurrences(_, _)
FirstOccurrences(names, seen) ==
    IF names = <<>> THEN <<>>
    ELSE (IF Head(names) \in seen THEN <<>> ELSE <<Head(names)>>)
         \o FirstOccurrences(Tail(names), seen \cup {Head(names)})

\* The names of the mapping the last match returned, in iteration order.
MatchNames ==
    [i \in 1..Len(result.value.matches.items) |->
        result.value.matches.items[i][1]]

\* C15: the parameter mapping of a successful match iterates its names in
\* component declaration order, with an entry for every dynamic component
\* and none for a literal component.
C15_DeclarationOrder ==
    MatcherMatched =>
        MatchNames = FirstOccurrences(DynamicNames(matcher.components), {})

\* A match of two dynamic components of different names.
C15_Witness ==
    /\ MatcherMatched
    /\ Len(matcher.components) = 2
    /\ matcher.components[1].type = "function"
    /\ matcher.components[2].type = "function"
    /\ matcher.components[1].name # matcher.components[2].name
    /\ Len(result.value.matches.items) = 2

-----------------------------------------------------------------------------
(* Rendering the Router resource itself, under Spec *)

\* What entry i's matcher gives on the request and no segments.
NullOutcome(i) == ApplyMatcher(routes[i].route, request, <<>>)

NullMatches(i) ==
    Returned(NullOutcome(i)) /\ NullOutcome(i).value.matches # None

\* Entry i is the first entry that matches the empty sequence.
FirstNullMatch(i) == NullMatches(i) /\ \A j \in 1..(i - 1) : ~NullMatches(j)

\* What the handler of entry i returns for its match of the empty sequence.
NullResult(i) ==
    HandlerResult(routes[i].meth, Owner, request, NullOutcome(i).value.matches)

\* C16, as stated: a render dispatches with an empty segment sequence; if
\* an entry matches the empty sequence its handler's result is what is
\* rendered, and if no entry matches the not-found resource (404) is
\* rendered and no handler runs.
C16_NullRouteRendersResult ==
    (result.op = "render" /\ result.raised = "") =>
        /\ \A i \in 1..Len(routes) :
              FirstNullMatch(i) =>
                  /\ result.value.rendered = NullResult(i)
                  /\ Len(calls) = 1
        /\ (\A i \in 1..Len(routes) : ~NullMatches(i)) =>
              /\ result.value.rendered = NotFound
              /\ calls = <<>>

\* C16, amended: as above, except that when the handler of the matching
\* entry returns None the not-found resource (404) is rendered in its
\* place, the handler having run.
C16_NullRouteRender ==
    (result.op = "render" /\ result.raised = "") =>
        /\ \A i \in 1..Len(routes) :
              FirstNullMatch(i) =>
                  /\ result.value.rendered =
                        (IF NullResult(i) = None THEN NotFound
                         ELSE NullResult(i))
                  /\ calls = <<HandlerCall(routes[i].meth, Owner, request,
                                           NullOutcome(i).value.matches)>>
        /\ (\A i \in 1..Len(routes) : ~NullMatches(i)) =>
              /\ result.value.rendered = NotFound
              /\ calls = <<>>

\* A render while the caller holds segments that the first entry matches
\* and the second does not: the second, which matches the empty sequence,
\* is the one rendered.
C16_Witness ==
    /\ result.op = "render"
    /\ result.raised = ""
    /\ Len(routes) = 2
    /\ segments # <<>>
    /\ EntryMatches(1)
    /\ ~NullMatches(1)
    /\ FirstNullMatch(2)
    /\ result.value.rendered # NotFound

-----------------------------------------------------------------------------
(* Properties of parse, under SpecParse *)

\* The sequence expected[name] is applied to: query[name], or the empty
\* sequence when name is absent from the query.
ArgumentOf(name) ==
    IF name \in DOMAIN queryArgs THEN queryArgs[name] ELSE List(<<>>)

\* C17: parse(expected, query) returns a mapping whose key set is exactly
\* the key set of expected, each value being expected[name] applied to
\* query[name], or to the empty sequence when name is absent from query;
\* names only present in query never appear.
C17_ParseIsPointwise ==
    result.op = "parse" =>
        /\ result.raised = ""
        /\ result.value.type = "dict"
        /\ DOMAIN result.value.items = DOMAIN config.expected
        /\ \A name \in DOMAIN config.expected :
              result.value.items[name] =
                  Apply(config.expected[name], ArgumentOf(name),
                        manyDefault).value

-----------------------------------------------------------------------------
(* Properties of one and many, under SpecQuery *)

\* The raw value is a sequence that is not text, with more than n elements.
HasElement(n) == rawValue.type = "list" /\ Len(rawValue.items) > n

\* C18: one(parser, n), n >= 0, applied to a sequence with more than n
\* elements gives what parser gives on element n, parser being invoked on
\* that element alone; applied to a sequence with at most n elements, to
\* None, to a non-sequence or to a text or byte scalar it returns None
\* without invoking parser.
C18_OneAppliesToElement ==
    result.op = "one" =>
        IF HasElement(config.n)
        THEN /\ calls = <<rawValue.items[config.n + 1]>>
             /\ Result("one", Apply(config.func,
                                    rawValue.items[config.n + 1],
                                    manyDefault)) = result
        ELSE /\ calls = <<>>
             /\ result.raised = ""
             /\ result.value = None

\* one(parser, 1) has parsed the second of two elements to a value.
C18_Witness ==
    /\ result.op = "one"
    /\ config.n = 1
    /\ HasElement(1)
    /\ result.raised = ""
    /\ result.value # None

\* C19: many(parser) applied to a sequence returns the sequence of the
\* parser's results, of the same length and in the same order; applied to
\* None, a non-sequence or a text or byte scalar it returns an empty
\* sequence, not None.
C19_ManyMapsInOrder ==
    result.op = "many" =>
        /\ result.raised = ""
        /\ result.value.type = "list"
        /\ IF rawValue.type = "list"
           THEN /\ Len(result.value.items) = Len(rawValue.items)
                /\ \A i \in 1..Len(rawValue.items) :
                      result.value.items[i] =
                          Apply(config.func, rawValue.items[i],
                                manyDefault).value
           ELSE result.value.items = <<>>

-----------------------------------------------------------------------------
(* Properties of Boolean, under SpecQuery *)

\* The raw value decoded with the encoding given to the parser.
Decoded == QueryText(rawValue, config.encoding)

\* The decoded value, trimmed, equals an element of set ignoring case.
EqualsIgnoringCase(set) ==
    /\ Decoded.value # None
    /\ \E t \in set : Lower(t) = Lower(Strip(Decoded.value.chars))

\* C20: for a value that decodes, Boolean(value, true, false) returns True
\* when the decoded, trimmed value equals an element of the true set
\* ignoring case, False when it equals an element of the false set
\* ignoring case, and None otherwise (None for None); for the default sets
\* and for sets of the caller's own.
C20_BooleanIgnoresCase ==
    (result.op = "Boolean" /\ Returned(Decoded)) =>
        /\ result.raised = ""
        /\ result.value =
              (IF EqualsIgnoringCase(config.true) THEN BoolObj(TRUE)
               ELSE IF EqualsIgnoringCase(config.false) THEN BoolObj(FALSE)
               ELSE None)

-----------------------------------------------------------------------------
(* Dispatch leaves the shared tables alone, under SpecConcurrent *)

\* What dispatch d gives when it runs alone over the tables as constructed.
Alone(d) ==
    IF inflight[d].kind = "route"
    THEN RouterMatchRoute(config.routes, Owner, request, inflight[d].given)
    ELSE [raised |-> NegotiateHandler(config.negotiator, request).raised,
          value |-> NegotiateHandler(config.negotiator, request).value,
          calls |-> <<>>]

\* C21: dispatch is read-only on the shared tables: the Router table, with
\* the component sequences of its matchers, and the negotiator stay as
\* constructed, and under every interleaving each dispatch that is over
\* gave what it gives when run alone, so running it again on the same
\* input gives an identical result.
C21_DispatchReadOnly ==
    /\ routes = config.routes
    /\ negotiator = config.negotiator
    /\ \A d \in Dispatches :
          inflight[d].done =>
              /\ inflight[d].raised = Alone(d).raised
              /\ inflight[d].value = Alone(d).value
              /\ inflight[d].calls = Alone(d).calls

\* A Router dispatch that invoked a handler is over while another
\* dispatch, over other segments, stands between two iterations.
C21_Witness ==
    /\ inflight[1].kind = "route"
    /\ inflight[1].done
    /\ inflight[1].calls # <<>>
    /\ inflight[2].kind = "route"
    /\ ~inflight[2].done
    /\ inflight[2].pos = 2
    /\ inflight[2].given # inflight[1].given

-----------------------------------------------------------------------------
(* The conditions of a match, under SpecMatch *)

\* R after normalization: the component list a sole string stands for.
Normalized ==
    IF Len(matcher.components) = 1 /\ matcher.components[1].type = "bytes"
    THEN PatternComponents(matcher.components[1].chars)
    ELSE matcher.components

\* A literal component equals the segment; a dynamic component parses it
\* to a value that is not None.
Fits(us, them) ==
    IF Callable(us) THEN ~CannotParse(us, request, them) ELSE us = them

\* The conditions under which the matcher is to match the segments.
ShouldMatch ==
    /\ IF matcher.partialMatching
       THEN Len(segments) >= Len(Normalized)
       ELSE Len(segments) = Len(Normalized)
    /\ \A i \in 1..Len(Normalized) : Fits(Normalized[i], segments[i])

\* C22: route(R) matches S exactly when len(S) = len(R) after
\* normalization and every component fits the segment at its position;
\* subroute(R) matches S exactly when len(S) >= len(R) and the same holds
\* for the first len(R) segments; in every other case the matcher reports
\* NoMatch.
C22_MatchExactlyWhen ==
    result.op = "matchRoute" =>
        /\ result.raised = ""
        /\ (result.value.matches # None) <=> ShouldMatch

-----------------------------------------------------------------------------
(* One handler at most per dispatch, under Spec *)

\* The segments a dispatch ran its matchers on: render dispatches on a new
\* empty list, locateChild on the segments it was given.
Dispatched == IF result.op = "render" THEN <<>> ELSE segments

\* What entry i's matcher gives on the segments of the dispatch.
DispatchOutcome(i) == ApplyMatcher(routes[i].route, request, Dispatched)

\* Entry i is the first entry whose matcher succeeds.
FirstSuccess(i) ==
    /\ Returned(DispatchOutcome(i))
    /\ DispatchOutcome(i).value.matches # None
    /\ \A j \in 1..(i - 1) :
          /\ Returned(DispatchOutcome(j))
          /\ DispatchOutcome(j).value.matches = None

\* C23: each dispatch invokes at most one handler.  Once an entry's
\* matcher succeeds its handler is invoked exactly once and no later
\* entry's matcher or handler runs, even when that handler returns None;
\* the entries registered before it have had their matchers run and their
\* handlers not invoked.
C23_AtMostOneHandler ==
    result.op \in {"locateChild", "render"} =>
        /\ Len(calls) <= 1
        /\ \A i \in 1..Len(routes) :
              FirstSuccess(i) =>
                  /\ Len(calls) = 1
                  /\ calls[1].meth = routes[i].meth
                  /\ calls[1].params = DispatchOutcome(i).value.matches
                  /\ config.tried = [j \in 1..i |-> j]

\* The first entry matches and its handler returned None, a later entry
\* with another handler matches too, and one dispatch has run.
C23_Witness ==
    /\ result.op = "locateChild"
    /\ Len(routes) = 2
    /\ FirstSuccess(1)
    /\ routes[1].meth = "nothing"
    /\ routes[2].meth = "foo"
    /\ Returned(DispatchOutcome(2))
    /\ DispatchOutcome(2).value.matches # None
    /\ result.raised = ""
    /\ result.value.result = None

-----------------------------------------------------------------------------
(* Requests that name no media type, under SpecNegotiate *)

\* The request carries no Accept header at all.
NoAcceptHeader == ~request.accept.present

\* The request carries an Accept header whose values are all empty.
OnlyEmptyAccept ==
    /\ request.accept.present
    /\ \A i \in 1..Len(request.accept.values) : request.accept.values[i] = <<>>

\* C24: negotiation is total over requests.  For a request with no Accept
\* header at all, or with only empty Accept values, negotiation does not
\* raise and behaves as the none-match case: it selects the first handler
\* when fallback is true and the not-acceptable sentinel when it is false.
C24_NegotiationTotal ==
    (/\ result.op = "negotiateHandler"
     /\ negotiator.handlers # <<>>
     /\ NoAcceptHeader \/ OnlyEmptyAccept)
    => /\ result.raised = ""
       /\ result.value =
             IF negotiator.fallback
             THEN Negotiated(negotiator.handlers[1],
                             negotiator.handlers[1].contentType)
             ELSE Negotiated(NotAcceptable, None)

-----------------------------------------------------------------------------
(* A class with a Router attribute, its instances and their bound         *)
(* Routers.  The class-level Router is the first object of the heap.      *)

ClassRouter == 1

\* The instances of the class.
Instance(name) == [type |-> "instance", name |-> name]

Owners == {Instance("thing"), Instance("other")}

\* The handlers and patterns registered, and the segments dispatched.
BoundRoutes ==
    {[f |-> "foo", components |-> <<Bytes(<<"a">>)>>],
     [f |-> "nothing", components |-> <<>>]}

BoundSegmentLists == {<<>>, <<Bytes(<<"a">>)>>}

\* cls.router or instance.router: Router.__get__(obj, type) on the
\* class-level Router.
DescriptorGet(obj) ==
    /\ obj # None => Len(heap.routers) <= Cardinality(Owners)
    /\ LET r == Get(heap, ClassRouter, obj)
       IN  /\ heap' = r.heap
           /\ result' = Result("get", Return(r.value))
    /\ config' = [before |-> heap, obj |-> obj]
    /\ calls' = <<>>
    /\ UNCHANGED <<routes, matcher, request, segments, negotiator, rawValue,
                   queryArgs, manyDefault, inflight,
                   renders>>

\* router.route(*components)(f) on the k-th Router
BoundRoute(k, f, components) ==
    /\ k \in 1..Len(heap.routers)
    /\ Len(RoutesOf(heap, k)) < MaxRoutes
    /\ heap' = AddRoute(heap, k, f, Matcher(components, FALSE))
    /\ result' = Result("addRoute", Return(None))
    /\ config' = [before |-> heap, router |-> k,
                  entry |-> RouteEntry(f, Matcher(components, FALSE))]
    /\ calls' = <<>>
    /\ UNCHANGED <<routes, matcher, request, segments, negotiator, rawValue,
                   queryArgs, manyDefault, inflight,
                   renders>>

\* router.resource().locateChild(request, segs) on the k-th Router
BoundDispatch(k, segs) ==
    /\ k \in 1..Len(heap.routers)
    /\ LET r == ResourceLocateChild(heap, k, request, segs)
       IN  /\ result' = Result("dispatch", r)
           /\ calls' = r.calls
    /\ config' = [before |-> heap, router |-> k]
    /\ UNCHANGED <<routes, matcher, request, segments, negotiator, rawValue,
                   queryArgs, manyDefault, inflight, heap,
                   renders>>

InitBind ==
    /\ routes = <<>>
    /\ matcher = NoMatcher
    /\ request = PlainRequest
    /\ segments = <<>>
    /\ result = NoResult
    /\ calls = <<>>
    /\ negotiator = NoNegotiator
    /\ config = NoConfig
    /\ rawValue = None
    /\ queryArgs = EmptyDict
    /\ manyDefault = <<>>
    /\ inflight = <<>>
    /\ heap = NewRouter(NoHeap)
    /\ renders = NoRenders

NextBind ==
    \/ \E obj \in Owners \cup {None} : DescriptorGet(obj)
    \/ \E k \in 1..(Cardinality(Owners) + 1), r \in BoundRoutes :
          BoundRoute(k, r.f, r.components)
    \/ \E k \in 1..(Cardinality(Owners) + 1), segs \in BoundSegmentLists :
          BoundDispatch(k, segs)

SpecBind == InitBind /\ [][NextBind]_vars

-----------------------------------------------------------------------------
(* Binding a Router to an instance, under SpecBind *)

\* The Router objects that existed before the last operation.
Before == 1..Len(config.before.routers)

\* C25: accessing a Router through an owning instance yields a new Router
\* bound to that instance whose table holds the entries of the class-level
\* Router at that moment, in the same order, and accessing it through the
\* class returns the class-level Router itself; registering a route on a
\* bound Router leaves the table of the class-level Router and of every
\* other bound Router unchanged; a handler dispatched through a bound
\* Router receives that Router's own owner.
C25_BoundRouter ==
    /\ result.op = "get" =>
          /\ \A j \in Before :
                /\ heap.routers[j].self = config.before.routers[j].self
                /\ RoutesOf(heap, j) = RoutesOf(config.before, j)
          /\ IF config.obj = None
             THEN /\ result.value = RouterRef(ClassRouter)
                  /\ Len(heap.routers) = Len(config.before.routers)
             ELSE /\ result.value.id = Len(config.before.routers) + 1
                  /\ Len(heap.routers) = result.value.id
                  /\ heap.routers[result.value.id].self = config.obj
                  /\ RoutesOf(heap, result.value.id) =
                        RoutesOf(config.before, ClassRouter)
    /\ result.op = "addRoute" =>
          /\ RoutesOf(heap, config.router) =
                Append(RoutesOf(config.before, config.router), config.entry)
          /\ \A j \in Before \ {config.router} :
                RoutesOf(heap, j) = RoutesOf(config.before, j)
    /\ (result.op = "dispatch" /\ config.router # ClassRouter) =>
          /\ result.raised = ""
          /\ \A i \in 1..Len(calls) :
                calls[i].obj = heap.routers[config.router].self

\* Two Routers bound to different instances beside the class-level Router,
\* which has a route; a route was registered on the first bound Router and
\* a dispatch through it invoked a handler.
C25_Witness ==
    /\ result.op = "dispatch"
    /\ config.router = 2
    /\ Len(heap.routers) = 3
    /\ heap.routers[2].self # heap.routers[3].self
    /\ RoutesOf(heap, ClassRouter) # <<>>
    /\ Len(RoutesOf(heap, 2)) > Len(RoutesOf(heap, ClassRouter))
    /\ Len(RoutesOf(heap, 3)) = Len(RoutesOf(heap, ClassRouter))
    /\ calls # <<>>

-----------------------------------------------------------------------------
(* Routes that repeat a parameter name: MaxRepeat components, each a      *)
(* literal or a dynamic component of one of two names.                     *)

MaxRepeat == 3

RepeatComponents ==
    {Bytes(<<"7">>), Text("name", NoEncoding),
     Integer("name", DefaultBase, NoEncoding),
     Integer("n", DefaultBase, NoEncoding)}

RepeatComponentLists == [1..MaxRepeat -> RepeatComponents]

RepeatSegmentLists == [1..MaxRepeat -> {Bytes(<<"a">>), Bytes(<<"7">>)}]

InitRepeat ==
    /\ routes = <<>>
    /\ matcher = NoMatcher
    /\ request = PlainRequest
    /\ segments \in RepeatSegmentLists
    /\ result = NoResult
    /\ calls = <<>>
    /\ negotiator = NoNegotiator
    /\ config = NoConfig
    /\ rawValue = None
    /\ queryArgs = EmptyDict
    /\ manyDefault = <<>>
    /\ inflight = <<>>
    /\ heap = NoHeap
    /\ renders = NoRenders

NextRepeat ==
    \/ \E c \in RepeatComponentLists : Route(c)
    \/ \E c \in RepeatComponentLists : Subroute(c)
    \/ CallMatcher

SpecRepeat == InitRepeat /\ [][NextRepeat]_vars

-----------------------------------------------------------------------------
(* A parameter name that repeats, under SpecRepeat *)

\* The positions of the dynamic components named name.
Named(name) ==
    {i \in 1..Len(matcher.components) :
        /\ Callable(matcher.components[i])
        /\ matcher.components[i].name = name}

Least(S) == CHOOSE i \in S : \A j \in S : i <= j

Greatest(S) == CHOOSE i \in S : \A j \in S : j <= i

\* The positions of the mapping's items that hold name.
ItemsNamed(name) ==
    {k \in 1..Len(result.value.matches.items) :
        result.value.matches.items[k][1] = name}

\* The names that come first at a position before i.
NamesBefore(i) ==
    {matcher.components[j].name :
        j \in {j \in 1..(i - 1) : Callable(matcher.components[j])}}

\* C26: when two dynamic components of one route carry the same parameter
\* name and both parse, the parameter mapping holds a single entry for
\* that name, whose value is the one parsed by the later component and
\* whose iteration position is that of the first component with that name.
C26_RepeatedName ==
    MatcherMatched =>
        \A name \in {"name", "n"} :
            Cardinality(Named(name)) >= 2 =>
                /\ Cardinality(ItemsNamed(name)) = 1
                /\ \A k \in ItemsNamed(name) :
                      /\ result.value.matches.items[k][2] =
                            Match(matcher.components[Greatest(Named(name))],
                                  request,
                                  segments[Greatest(Named(name))]
                                 ).value.match
                      /\ k = Cardinality(NamesBefore(Least(Named(name)))) + 1

\* A route whose first and third components carry the same name and parse
\* different values, with a component of another name between them.
C26_Witness ==
    /\ MatcherMatched
    /\ Named("name") = {1, 3}
    /\ Named("n") = {2}
    /\ segments[1] # segments[3]
    /\ matcher.components[1] = matcher.components[3]
    /\ Len(result.value.matches.items) = 2

-----------------------------------------------------------------------------
(* Rendering requests through a SpinneretResource: the wrapped resource   *)
(* yields a value or a Deferred, the Deferred is fired by whoever made it *)
(* and the client may go away, in any order.                              *)

MaxRequests == 2

\* The values a render result is.
RenderValues == {Bytes(<<"hello">>), Bytes(<<>>), None, DelayedResource}

\* What the wrapped render yields.
Yields ==
    {Value(v) : v \in RenderValues} \cup
    {FiredDeferred(v) : v \in RenderValues} \cup
    {PendingDeferred(c) : c \in BOOLEAN}

\* request.render(resource): SpinneretResource.render(request), the
\* wrapped render yielding y.
RenderRequest(y) ==
    /\ Len(renders) < MaxRequests
    /\ renders' = Append(renders, HandleRenderResult(NoRender, y))
    /\ result' = Result("render", Return(NOT_DONE_YET))
    /\ config' = [yielded |-> y, request |-> Len(renders) + 1]
    /\ UNCHANGED <<routes, matcher, request, segments, calls, negotiator,
                   rawValue, queryArgs, manyDefault, inflight, heap>>

\* d.callback(v) on the Deferred the wrapped render of request q yielded.
FireDeferred(q, v) ==
    /\ q \in 1..Len(renders)
    /\ renders[q].yield \in {"pending", "fired"}
    /\ LET r == DeferredCallback(renders[q], v)
       IN  /\ renders' = [renders EXCEPT ![q] = r.value]
           /\ result' = Result("callback",
                               [raised |-> r.raised, value |-> None])
    /\ config' = [fired |-> v, request |-> q, before |-> renders[q]]
    /\ UNCHANGED <<routes, matcher, request, segments, calls, negotiator,
                   rawValue, queryArgs, manyDefault, inflight, heap>>

\* The client of request q goes away before the request was finished.
ConnectionLost(q) ==
    /\ q \in 1..Len(renders)
    /\ renders[q].request = "live"
    /\ renders' = [renders EXCEPT ![q] = RequestConnectionLost(renders[q])]
    /\ result' = Result("connectionLost", Return(None))
    /\ config' = [request |-> q, before |-> renders[q]]
    /\ UNCHANGED <<routes, matcher, request, segments, calls, negotiator,
                   rawValue, queryArgs, manyDefault, inflight, heap>>

InitRender ==
    /\ routes = <<>>
    /\ matcher = NoMatcher
    /\ request = PlainRequest
    /\ segments = <<>>
    /\ result = NoResult
    /\ calls = <<>>
    /\ negotiator = NoNegotiator
    /\ config = NoConfig
    /\ rawValue = None
    /\ queryArgs = EmptyDict
    /\ manyDefault = <<>>
    /\ inflight = <<>>
    /\ heap = NoHeap
    /\ renders = NoRenders

NextRender ==
    \/ \E y \in Yields : RenderRequest(y)
    \/ \E q \in 1..MaxRequests, v \in RenderValues : FireDeferred(q, v)
    \/ \E q \in 1..MaxRequests : ConnectionLost(q)

SpecRender == InitRender /\ [][NextRender]_vars

-----------------------------------------------------------------------------
(* A render that yields a Deferred, under SpecRender *)

\* The positions of the events of one kind in what was done to request q.
EventsAt(q, kind) ==
    {i \in 1..Len(renders[q].events) : renders[q].events[i].event = kind}

\* The wrapped render of request q yielded a Deferred.
YieldedDeferred(q) == renders[q].yield \in {"pending", "fired"}

\* The position at which render returned.
ReturnedAt(q) == CHOOSE i \in EventsAt(q, "return") : TRUE

\* render returned NOT_DONE_YET and had written nothing by then.
ReturnedWithoutWriting(q) ==
    /\ Cardinality(EventsAt(q, "return")) = 1
    /\ renders[q].events[ReturnedAt(q)].value = NOT_DONE_YET
    /\ \A i \in EventsAt(q, "write") : ReturnedAt(q) < i

\* Request q has exactly one write, of body, then exactly one finish.
WrittenOnceThenFinished(q, body) ==
    /\ Cardinality(EventsAt(q, "write")) = 1
    /\ Cardinality(EventsAt(q, "finish")) = 1
    /\ \A i \in EventsAt(q, "write") :
          /\ renders[q].events[i].body = body
          /\ \A j \in EventsAt(q, "finish") : i < j

\* The last operation fired the Deferred of its request, which had not
\* fired, with a byte result.
FiredWithBytes ==
    /\ result.op = "callback"
    /\ config.before.d = "pending"
    /\ config.fired.type = "bytes"

\* The last operation was a render whose Deferred had fired with a byte
\* result when the wrapped render yielded it.
YieldedFiredWithBytes ==
    /\ result.op = "render"
    /\ config.yielded.yield = "fired"
    /\ config.yielded.value.type = "bytes"

\* Nothing is written while the Deferred has not fired, and a Deferred
\* that fires with a byte result has it written once, then the request
\* finished once.
WrittenWhenFired ==
    /\ \A q \in 1..Len(renders) :
          renders[q].d = "pending" => EventsAt(q, "write") = {}
    /\ FiredWithBytes => WrittenOnceThenFinished(config.request, config.fired)

\* C27 as stated: when the wrapped resource's render yields a Deferred,
\* SpinneretResource.render returns NOT_DONE_YET without writing; nothing
\* is written to the request before the Deferred fires, and when it fires
\* with a byte result that result is written exactly once and then the
\* request is finished exactly once, the write preceding the finish.
C27_DeferredRender ==
    /\ \A q \in 1..Len(renders) :
          YieldedDeferred(q) => ReturnedWithoutWriting(q)
    /\ WrittenWhenFired

\* C27, amended: render returns NOT_DONE_YET, without writing when the
\* Deferred has not fired by then; a Deferred that had fired with a byte
\* result when it was yielded has that result written once and the
\* request finished once, in this order, before render returns.
C27_DeferredRenderUnfired ==
    /\ \A q \in 1..Len(renders) :
          /\ Cardinality(EventsAt(q, "return")) = 1
          /\ renders[q].events[ReturnedAt(q)].value = NOT_DONE_YET
          /\ renders[q].yield = "pending" => ReturnedWithoutWriting(q)
    /\ YieldedFiredWithBytes =>
          /\ WrittenOnceThenFinished(config.request, config.yielded.value)
          /\ \A j \in EventsAt(config.request, "finish") :
                j < ReturnedAt(config.request)
    /\ WrittenWhenFired

\* A Deferred that had not fired when render returned was fired with
\* b'hello', which was written and the request finished.
C27_Witness ==
    /\ FiredWithBytes
    /\ config.fired = Bytes(<<"hello">>)
    /\ renders[config.request].yield = "pending"
    /\ renders[config.request].request = "finished"
    /\ Len(renders[config.request].events) = 4

-----------------------------------------------------------------------------
(* A request that finishes first, under SpecRender *)

\* C28: if the request finishes (its notifyFinish fires) before a Deferred
\* render result has fired, that Deferred is cancelled; under every
\* interleaving of the finish event and the firing of the Deferred the
\* render result is written to the request at most once and never after
\* the request has finished.
C28_FinishCancels ==
    /\ (result.op = "connectionLost" /\ config.before.d = "pending") =>
          /\ renders[config.request].d = "cancelled"
          /\ EventsAt(config.request, "cancel") # {}
    /\ \A q \in 1..Len(renders) :
          /\ Cardinality(EventsAt(q, "write")) <= 1
          /\ \A i \in EventsAt(q, "write") :
                \A j \in EventsAt(q, "finish") \cup
                         EventsAt(q, "connectionLost") : i < j

\* The client went away while the Deferred had not fired, and the
\* Deferred was fired with a byte result afterwards.
C28_Witness ==
    /\ result.op = "callback"
    /\ config.before.d = "cancelled"
    /\ config.before.request = "lost"
    /\ config.fired.type = "bytes"
    /\ EventsAt(config.request, "write") = {}

-----------------------------------------------------------------------------
(* One dynamic component on one segment, over requests with and without   *)
(* a charset and factories with and without an encoding.                  *)

ContentType(parts) == Header(<<parts>>)

EncodingRequests ==
    {PlainRequest,
     Latin1Request,
     Request(ContentType(<<"text/plain">>), NoHeader),
     Request(ContentType(<<"text/plain", ";", "charset", "=", "utf-8">>),
             NoHeader),
     Request(ContentType(<<"text/plain", ";", "charset", "=", "x-nope">>),
             NoHeader),
     Request(Header(<< <<"text/plain">>,
                       <<"text/plain", ";", "charset", "=", "latin-1">> >>),
             NoHeader)}

FactoryEncodings == {NoEncoding, "latin-1", "utf-8"}

EncodingComponents ==
    {Text("name", e) : e \in FactoryEncodings} \cup
    {Integer("n", DefaultBase, e) : e \in FactoryEncodings}

EncodingSegments ==
    {Bytes(<<"7">>), Bytes(<<BadByte>>), Unicode(<<"U+00FF">>)}

InitEncoding ==
    /\ routes = <<>>
    /\ matcher = NoMatcher
    /\ request \in EncodingRequests
    /\ segments \in {<<s>> : s \in EncodingSegments}
    /\ result = NoResult
    /\ calls = <<>>
    /\ negotiator = NoNegotiator
    /\ config = NoConfig
    /\ rawValue = None
    /\ queryArgs = EmptyDict
    /\ manyDefault = <<>>
    /\ inflight = <<>>
    /\ heap = NoHeap
    /\ renders = NoRenders

NextEncoding ==
    \/ \E us \in EncodingComponents : Route(<<us>>)
    \/ \E us \in EncodingComponents : Subroute(<<us>>)
    \/ CallMatcher

SpecEncoding == InitEncoding /\ [][NextEncoding]_vars

-----------------------------------------------------------------------------
(* The encoding of a dynamic component, under SpecEncoding *)

\* The parameters of the request's first Content-Type header value.
FirstContentTypeArgs == ParseHeader(request.contentType.values[1]).args

\* The first Content-Type header value has a charset parameter.
HasCharset ==
    /\ request.contentType.present
    /\ request.contentType.values # <<>>
    /\ <<"charset">> \in DOMAIN FirstContentTypeArgs

\* The encoding by the order of precedence: the charset of the request,
\* else the encoding given to the factory, else utf-8.
EncodingFor(us) ==
    IF HasCharset THEN CodecName(FirstContentTypeArgs[<<"charset">>])
    ELSE IF us.encoding # NoEncoding THEN us.encoding
    ELSE "utf-8"

\* What the component's parser gives on the segment under that encoding.
ParsedUnder(us, them) ==
    IF us.parser = "Text" THEN QueryText(them, EncodingFor(us))
    ELSE QueryInteger(them, us.base, EncodingFor(us))

\* C29: the encoding a dynamic matcher uses to decode a byte segment is
\* the charset parameter of the request's first Content-Type header value
\* when that parameter is present, otherwise the encoding given to the
\* matcher factory, otherwise utf-8; a segment that is already text is
\* returned as is whatever the encoding.
C29_EncodingPrecedence ==
    result.op = "matchRoute" =>
        LET us == matcher.components[1]
            expected == ParsedUnder(us, segments[1])
        IN  /\ result.raised = expected.raised
            /\ result.raised = "" =>
                  result.value.matches =
                      IF expected.value = None THEN None
                      ELSE OrderedDict(<< <<us.name, expected.value>> >>)
            /\ (us.parser = "Text" /\ segments[1].type = "unicode") =>
                  /\ result.raised = ""
                  /\ result.value.matches =
                        OrderedDict(<< <<us.name, segments[1]>> >>)

\* A Text component made with encoding utf-8 decoded a byte that is not
\* utf-8 by the charset latin-1 of the request.
C29_Witness ==
    /\ MatcherMatched
    /\ matcher.components[1].parser = "Text"
    /\ matcher.components[1].encoding = "utf-8"
    /\ request = Latin1Request
    /\ segments = <<Bytes(<<BadByte>>)>>
    /\ result.value.matches =
          OrderedDict(<< <<"name", Unicode(<<"U+00FF">>)>> >>)

-----------------------------------------------------------------------------
(* The sequence many returns for an absent value, under SpecQuery *)

\* C30: the empty sequence that many(parser) returns for an absent input
\* is independent across calls: whatever callers have done to results
\* returned before, a call of many(parser) on None returns an empty
\* sequence.
C30_ManyDefaultIndependent ==
    (result.op = "many" /\ rawValue = None) =>
        /\ result.raised = ""
        /\ result.value = List(<<>>)

=============================================================================
